---- MODULE Spec2Model ----
(***************************************************************************)
(* Extension registry and command dispatch engine of agent-browser         *)
(* (cli/src/plugins/registry.rs): invocation resolution, positional        *)
(* argument binding and coercion, macro-step interpolation and the         *)
(* sequential dispatch of requests to the daemon.                          *)
(*                                                                         *)
(* Strings are TLA+ strings; Option<T> is a sequence of length 0 (None) or *)
(* 1 (Some); a serde_json Value is a record [t, v] tagged by its JSON type. *)
(***************************************************************************)
EXTENDS Integers, Sequences, FiniteSets, TLC

(***************************************************************************)
(* Bounds of the model.                                                    *)
(***************************************************************************)
\* Largest number of positional tokens after <extension> <command>.
MaxProvided == 3
\* Number of distinct payloads the daemon can put in a response.
MaxData == 2

(***************************************************************************)
(* Option<T>                                                               *)
(***************************************************************************)
None == <<>>
Some(x) == <<x>>
is_some(o) == Len(o) = 1
unwrap(o) == o[1]
unwrap_or(o, d) == IF is_some(o) THEN o[1] ELSE d

(***************************************************************************)
(* str: the methods of Rust's str that the registry uses.                  *)
(***************************************************************************)
Char(s, i) == SubSeq(s, i, i)

starts_with(s, p) == Len(p) <= Len(s) /\ SubSeq(s, 1, Len(p)) = p

ends_with(s, p) == Len(p) <= Len(s) /\ SubSeq(s, Len(s) - Len(p) + 1, Len(s)) = p

\* First index at or after `from` where p occurs in s, 0 when there is none.
RECURSIVE find_from(_, _, _)
find_from(s, p, from) ==
    IF from + Len(p) - 1 > Len(s) THEN 0
    ELSE IF SubSeq(s, from, from + Len(p) - 1) = p THEN from
    ELSE find_from(s, p, from + 1)

contains(s, p) == find_from(s, p, 1) # 0

\* str::replace: every non-overlapping occurrence of p, scanning left to right.
RECURSIVE replace(_, _, _)
replace(s, p, r) ==
    LET at == find_from(s, p, 1)
    IN  IF at = 0 THEN s
        ELSE SubSeq(s, 1, at - 1) \o r \o replace(SubSeq(s, at + Len(p), Len(s)), p, r)

Upper == "ABCDEFGHIJKLMNOPQRSTUVWXYZ"
Lower == "abcdefghijklmnopqrstuvwxyz"

to_ascii_lowercase_char(c) ==
    IF \E i \in 1..Len(Upper) : Char(Upper, i) = c
    THEN Char(Lower, CHOOSE i \in 1..Len(Upper) : Char(Upper, i) = c)
    ELSE c

RECURSIVE to_ascii_lowercase(_)
to_ascii_lowercase(s) ==
    IF s = "" THEN ""
    ELSE to_ascii_lowercase_char(Char(s, 1)) \o to_ascii_lowercase(Tail(s))

DigitChars == "0123456789"

is_digit(c) == \E i \in 1..10 : Char(DigitChars, i) = c

digit_value(c) == (CHOOSE i \in 1..10 : Char(DigitChars, i) = c) - 1

all_digits(s) == \A i \in 1..Len(s) : is_digit(Char(s, i))

RECURSIVE strip_leading_zeros(_)
strip_leading_zeros(s) ==
    IF Len(s) > 0 /\ Char(s, 1) = "0" THEN strip_leading_zeros(Tail(s)) ELSE s

RECURSIVE strip_trailing_zeros(_)
strip_trailing_zeros(s) ==
    IF Len(s) > 0 /\ Char(s, Len(s)) = "0"
    THEN strip_trailing_zeros(SubSeq(s, 1, Len(s) - 1)) ELSE s

RECURSIVE zeros(_)
zeros(n) == IF n <= 0 THEN "" ELSE "0" \o zeros(n - 1)

\* Value of a digit string (the string is short enough for the checker's integers).
RECURSIVE digits_value(_)
digits_value(s) ==
    IF s = "" THEN 0
    ELSE 10 * digits_value(SubSeq(s, 1, Len(s) - 1)) + digit_value(Char(s, Len(s)))

\* a <= b for digit strings without leading zeros, as numbers.
RECURSIVE digits_le_same_len(_, _)
digits_le_same_len(a, b) ==
    IF a = "" THEN TRUE
    ELSE IF digit_value(Char(a, 1)) < digit_value(Char(b, 1)) THEN TRUE
    ELSE IF digit_value(Char(a, 1)) > digit_value(Char(b, 1)) THEN FALSE
    ELSE digits_le_same_len(Tail(a), Tail(b))

digits_le(a, b) ==
    \/ Len(a) < Len(b)
    \/ Len(a) = Len(b) /\ digits_le_same_len(a, b)

(***************************************************************************)
(* str::parse::<i64>, str::parse::<bool>, str::parse::<f64>                *)
(***************************************************************************)
I64MaxDigits == "9223372036854775807"
I64MinDigits == "9223372036854775808"

\* The sign a numeral may start with, and the text after it.
has_sign(raw) == Len(raw) > 0 /\ Char(raw, 1) \in {"+", "-"}
is_negative(raw) == Len(raw) > 0 /\ Char(raw, 1) = "-"
unsigned_part(raw) == IF has_sign(raw) THEN Tail(raw) ELSE raw

\* The magnitude (digits without leading zeros) must fit 64 bits; the check is
\* made on the digits, so that a value that overflows is never computed.
parse_i64_magnitude(neg, mag) ==
    IF ~digits_le(mag, IF neg THEN I64MinDigits ELSE I64MaxDigits) THEN None
    ELSE Some(IF neg THEN 0 - digits_value(mag) ELSE digits_value(mag))

parse_i64_digits(neg, body) ==
    IF body = "" \/ ~all_digits(body) THEN None
    ELSE parse_i64_magnitude(neg, strip_leading_zeros(body))

\* i64::from_str: an optional sign, then one or more decimal digits.
parse_i64(raw) == parse_i64_digits(is_negative(raw), unsigned_part(raw))

\* bool::from_str: exactly "true" or "false".
parse_bool(raw) ==
    IF raw = "true" THEN Some(TRUE)
    ELSE IF raw = "false" THEN Some(FALSE)
    ELSE None

\* An f64 is [k |-> "nan"], [k |-> "inf", neg] or the finite decimal
\* [k |-> "finite", neg, digits, exp] = (+/-) digits * 10^exp, digits without
\* leading or trailing zeros ("" for zero, then exp = 0).
F64Nan == [k |-> "nan", neg |-> FALSE, digits |-> "", exp |-> 0]
F64Inf(neg) == [k |-> "inf", neg |-> neg, digits |-> "", exp |-> 0]
F64Finite(neg, digits, exp) == [k |-> "finite", neg |-> neg, digits |-> digits, exp |-> exp]

\* Largest and smallest decimal order of magnitude of a finite nonzero f64.
F64MaxExp10 == 309
F64MinExp10 == -323

\* The f64 nearest to (+/-) digits * 10^e10, digits without leading or
\* trailing zeros: beyond the largest magnitude it is an infinity, below the
\* smallest it is zero.
f64_saturate(neg, digits, e10) ==
    IF digits = "" THEN F64Finite(neg, "", 0)
    ELSE IF Len(digits) + e10 > F64MaxExp10 THEN F64Inf(neg)
    ELSE IF Len(digits) + e10 < F64MinExp10 THEN F64Finite(neg, "", 0)
    ELSE F64Finite(neg, digits, e10)

f64_normalize(neg, all, e10) ==
    f64_saturate(neg, strip_trailing_zeros(all),
                 e10 + Len(all) - Len(strip_trailing_zeros(all)))

f64_from_decimal(neg, int_part, frac_part, exp) ==
    f64_normalize(neg, strip_leading_zeros(int_part \o frac_part), exp - Len(frac_part))

\* The exponent's value, saturated: any exponent beyond four digits is out of
\* the range of an f64 anyway.
exponent_value(expneg, expmag) ==
    IF Len(expmag) > 4 THEN (IF expneg THEN -9999 ELSE 9999)
    ELSE IF expneg THEN 0 - digits_value(expmag) ELSE digits_value(expmag)

parse_f64_parts(neg, ipart, fpart, expneg, expbody) ==
    IF ~all_digits(ipart) \/ ~all_digits(fpart) \/ ipart \o fpart = "" THEN None
    ELSE IF expbody = "" \/ ~all_digits(expbody) THEN None
    ELSE Some(f64_from_decimal(neg, ipart, fpart,
                               exponent_value(expneg, strip_leading_zeros(expbody))))

parse_f64_mantissa(neg, mant, dot, exptxt) ==
    parse_f64_parts(neg,
                    IF dot = 0 THEN mant ELSE SubSeq(mant, 1, dot - 1),
                    IF dot = 0 THEN "" ELSE SubSeq(mant, dot + 1, Len(mant)),
                    is_negative(exptxt), unsigned_part(exptxt))

parse_f64_number(neg, body, epos) ==
    parse_f64_mantissa(neg,
                       IF epos = 0 THEN body ELSE SubSeq(body, 1, epos - 1),
                       find_from(IF epos = 0 THEN body ELSE SubSeq(body, 1, epos - 1), ".", 1),
                       IF epos = 0 THEN "0" ELSE SubSeq(body, epos + 1, Len(body)))

parse_f64_unsigned(neg, body) ==
    IF body \in {"inf", "infinity"} THEN Some(F64Inf(neg))
    ELSE IF body = "nan" THEN Some(F64Nan)
    ELSE parse_f64_number(neg, body, find_from(body, "e", 1))

parse_f64_lowercase(low) == parse_f64_unsigned(is_negative(low), unsigned_part(low))

\* f64::from_str, on the lowercased text:
\*   Float  ::= Sign? ( 'inf' | 'infinity' | 'nan' | Number )
\*   Number ::= ( Digit+ | Digit+ '.' Digit* | Digit* '.' Digit+ ) Exp?
\*   Exp    ::= 'e' Sign? Digit+
parse_f64(raw) == parse_f64_lowercase(to_ascii_lowercase(raw))

(***************************************************************************)
(* serde_json::Value                                                       *)
(***************************************************************************)
ValueNull == [t |-> "null", v |-> "null"]
ValueBool(b) == [t |-> "bool", v |-> b]
ValueInt(n) == [t |-> "int", v |-> n]
ValueFloat(f) == [t |-> "float", v |-> f]
ValueString(s) == [t |-> "string", v |-> s]
ValueArray(items) == [t |-> "array", v |-> items]
ValueObject(map) == [t |-> "object", v |-> map]

\* Value::from(f64): Number::from_f64 refuses NaN and the infinities, and the
\* conversion then yields Value::Null.
value_from_f64(f) == IF f.k = "finite" THEN ValueFloat(f) ELSE ValueNull

\* Value::get(key): Some(member) for an object holding key, None otherwise
\* (also for every value that is not an object).
value_get(value, key) ==
    IF value.t = "object" /\ key \in DOMAIN value.v THEN Some(value.v[key]) ELSE None

\* The shortest decimal text of a finite f64, as serde_json prints it.
f64_to_string(f) ==
    LET d    == f.digits
        n    == Len(d)
        kk   == n + f.exp
        sign == IF f.neg THEN "-" ELSE ""
    IN  IF n = 0 THEN sign \o "0.0"
        ELSE IF f.exp >= 0 /\ kk <= 16 THEN sign \o d \o zeros(f.exp) \o ".0"
        ELSE IF 0 < kk /\ kk <= 16 THEN sign \o SubSeq(d, 1, kk) \o "." \o SubSeq(d, kk + 1, n)
        ELSE IF -5 < kk /\ kk <= 0 THEN sign \o "0." \o zeros(0 - kk) \o d
        ELSE IF n = 1 THEN sign \o d \o "e" \o ToString(kk - 1)
        ELSE sign \o Char(d, 1) \o "." \o SubSeq(d, 2, n) \o "e" \o ToString(kk - 1)

\* Value::to_string (compact JSON) of the scalar values an argument can be
\* bound to in this model; strings are never rendered through it.
value_to_string(value) ==
    CASE value.t = "null"  -> "null"
      [] value.t = "bool"  -> IF value.v THEN "true" ELSE "false"
      [] value.t = "int"   -> ToString(value.v)
      [] value.t = "float" -> f64_to_string(value.v)

(***************************************************************************)
(* Manifest model: ExtensionManifest, ExtensionCommand, ExtensionArg,      *)
(* ExtensionHandler.  Only the fields the resolver and the dispatch engine *)
(* read are kept.                                                          *)
(***************************************************************************)
ExtensionArg(name, arg_type, required, default) ==
    [name |-> name, arg_type |-> arg_type, required |-> required, default |-> default]

ExtensionHandler(handler_type, steps) == [handler_type |-> handler_type, steps |-> steps]

ExtensionCommand(name, args, handler) == [name |-> name, args |-> args, handler |-> handler]

ExtensionManifest(name, commands) == [name |-> name, commands |-> commands]

(***************************************************************************)
(* ExtensionError and the result of try_execute_extension                  *)
(***************************************************************************)
InvalidInvocation(message, usage) ==
    [kind |-> "InvalidInvocation", message |-> message, usage |-> usage]
InvalidValue(message, usage) ==
    [kind |-> "InvalidValue", message |-> message, usage |-> usage]
Io(message) == [kind |-> "Io", message |-> message]
CommandFailed(response) == [kind |-> "CommandFailed", response |-> response]
OkNone == [kind |-> "OkNone"]
OkSome(response) == [kind |-> "OkSome", response |-> response]
\* No result yet: the call has not returned.
Pending == [kind |-> "Pending"]

Ok(x) == [ok |-> TRUE, v |-> x]
Err(e) == [ok |-> FALSE, v |-> e]

(***************************************************************************)
(* ExtensionRegistry                                                       *)
(***************************************************************************)
\* Indices of the elements of seq satisfying Test, and Iterator::find.
first_index(seq, Test(_)) ==
    IF \E i \in 1..Len(seq) : Test(seq[i])
    THEN CHOOSE i \in 1..Len(seq) : Test(seq[i]) /\ \A j \in 1..(i - 1) : ~Test(seq[j])
    ELSE 0

\* The references that find and the resolver hand out are positions in the
\* registry's list and in the extension's command list.
find(extensions, name) ==
    LET Named(ext) == ext.name = name
        i == first_index(extensions, Named)
    IN  IF i = 0 THEN None ELSE Some(i)

\* Variant: a subcommand also matches as a dotted namespace of a command name.
find_command_Namespace(ext, subcommand) ==
    LET Named(c) == c.name = subcommand \/ starts_with(c.name, subcommand \o ".")
        i == first_index(ext.commands, Named)
    IN  IF i = 0 THEN None ELSE Some(i)

find_command(ext, subcommand) ==
    LET Named(c) == c.name = subcommand
        i == first_index(ext.commands, Named)
    IN  IF i = 0 THEN None ELSE Some(i)

(***************************************************************************)
(* Invocation resolver: build_usage, parse_arg_value, parse_args           *)
(***************************************************************************)
RECURSIVE usage_args(_)

\* Variant: an argument whose manifest omits required is shown as optional.
usage_args_OmittedIsOptional(args) ==
    IF args = <<>> THEN ""
    ELSE (IF unwrap_or(Head(args).required, FALSE)
          THEN " <" \o Head(args).name \o ">"
          ELSE " [" \o Head(args).name \o "]") \o usage_args(Tail(args))

usage_args(args) ==
    IF args = <<>> THEN ""
    ELSE (IF unwrap_or(Head(args).required, TRUE)
          THEN " <" \o Head(args).name \o ">"
          ELSE " [" \o Head(args).name \o "]") \o usage_args(Tail(args))

build_usage(ext, cmd) ==
    "agent-browser " \o ext.name \o " " \o cmd.name
        \o (IF is_some(cmd.args) THEN usage_args(unwrap(cmd.args)) ELSE "")

\* .map(Value::from).map_err(|_| InvalidValue{..}) on the outcome of each parse.
parse_int_arg(parsed, def, usage) ==
    IF is_some(parsed) THEN Ok(ValueInt(unwrap(parsed)))
    ELSE Err(InvalidValue("Invalid int for " \o def.name, usage))

parse_number_arg(parsed, def, usage) ==
    IF is_some(parsed) THEN Ok(value_from_f64(unwrap(parsed)))
    ELSE Err(InvalidValue("Invalid number for " \o def.name, usage))

parse_bool_arg(parsed, def, usage) ==
    IF is_some(parsed) THEN Ok(ValueBool(unwrap(parsed)))
    ELSE Err(InvalidValue("Invalid bool for " \o def.name, usage))

parse_arg_value(def, raw, usage) ==
    CASE unwrap_or(def.arg_type, "string") = "int" ->
             parse_int_arg(parse_i64(raw), def, usage)
      [] unwrap_or(def.arg_type, "string") = "number" ->
             parse_number_arg(parse_f64(raw), def, usage)
      [] unwrap_or(def.arg_type, "string") = "bool" ->
             parse_bool_arg(parse_bool(raw), def, usage)
      [] OTHER -> Ok(ValueString(raw))

\* HashMap::insert on a map kept as a function from its keys.
map_insert(map, key, value) ==
    [k \in DOMAIN map \cup {key} |-> IF k = key THEN value ELSE map[k]]

EmptyMap == [k \in {} |-> ValueNull]

\* The loop of parse_args from declared argument idx on, values being the map
\* built so far.
RECURSIVE parse_args_from(_, _, _, _, _)

\* The branch of the loop body for a provided token, parsed being the outcome
\* of parse_arg_value: `?` returns the error, otherwise the value is inserted.
bind_provided(defs, provided, usage, idx, values, parsed) ==
    IF parsed.ok
    THEN parse_args_from(defs, provided, usage, idx + 1,
                         map_insert(values, defs[idx].name, parsed.v))
    ELSE parsed

\* Variant: an unsupplied optional argument without default is written as null.
parse_args_from_NullForAbsent(defs, provided, usage, idx, values) ==
    IF idx > Len(defs) THEN Ok(values)
    ELSE IF idx <= Len(provided)
    THEN bind_provided(defs, provided, usage, idx, values,
                       parse_arg_value(defs[idx], provided[idx], usage))
    ELSE IF is_some(defs[idx].default)
    THEN parse_args_from(defs, provided, usage, idx + 1,
                         map_insert(values, defs[idx].name, unwrap(defs[idx].default)))
    ELSE IF unwrap_or(defs[idx].required, TRUE)
    THEN Err(InvalidInvocation("Missing argument: " \o defs[idx].name, usage))
    ELSE parse_args_from(defs, provided, usage, idx + 1,
                         map_insert(values, defs[idx].name, ValueNull))

\* Variant: required defaults to false when the manifest omits it.
parse_args_from_RequiredDefaultsFalse(defs, provided, usage, idx, values) ==
    IF idx > Len(defs) THEN Ok(values)
    ELSE IF idx <= Len(provided)
    THEN bind_provided(defs, provided, usage, idx, values,
                       parse_arg_value(defs[idx], provided[idx], usage))
    ELSE IF is_some(defs[idx].default)
    THEN parse_args_from(defs, provided, usage, idx + 1,
                         map_insert(values, defs[idx].name, unwrap(defs[idx].default)))
    ELSE IF unwrap_or(defs[idx].required, FALSE)
    THEN Err(InvalidInvocation("Missing argument: " \o defs[idx].name, usage))
    ELSE parse_args_from(defs, provided, usage, idx + 1, values)

\* Variant: an unsupplied required argument is reported missing before its
\* default is looked at.
parse_args_from_RequiredBeforeDefault(defs, provided, usage, idx, values) ==
    IF idx > Len(defs) THEN Ok(values)
    ELSE IF idx <= Len(provided)
    THEN bind_provided(defs, provided, usage, idx, values,
                       parse_arg_value(defs[idx], provided[idx], usage))
    ELSE IF unwrap_or(defs[idx].required, TRUE)
    THEN Err(InvalidInvocation("Missing argument: " \o defs[idx].name, usage))
    ELSE IF is_some(defs[idx].default)
    THEN parse_args_from(defs, provided, usage, idx + 1,
                         map_insert(values, defs[idx].name, unwrap(defs[idx].default)))
    ELSE parse_args_from(defs, provided, usage, idx + 1, values)

parse_args_from(defs, provided, usage, idx, values) ==
    IF idx > Len(defs) THEN Ok(values)
    ELSE IF idx <= Len(provided)
    THEN bind_provided(defs, provided, usage, idx, values,
                       parse_arg_value(defs[idx], provided[idx], usage))
    ELSE IF is_some(defs[idx].default)
    THEN parse_args_from(defs, provided, usage, idx + 1,
                         map_insert(values, defs[idx].name, unwrap(defs[idx].default)))
    ELSE IF unwrap_or(defs[idx].required, TRUE)
    THEN Err(InvalidInvocation("Missing argument: " \o defs[idx].name, usage))
    ELSE parse_args_from(defs, provided, usage, idx + 1, values)

\* Variant: the tokens are coerced before their number is checked.
parse_args_with_usage_CoerceFirst(defs, provided, usage) ==
    IF Len(provided) > Len(defs) /\ parse_args_from(defs, provided, usage, 1, EmptyMap).ok
    THEN Err(InvalidInvocation("Too many arguments", usage))
    ELSE parse_args_from(defs, provided, usage, 1, EmptyMap)

parse_args_with_usage(defs, provided, usage) ==
    IF Len(provided) > Len(defs)
    THEN Err(InvalidInvocation("Too many arguments", usage))
    ELSE parse_args_from(defs, provided, usage, 1, EmptyMap)

parse_args(ext, cmd, defs, provided) ==
    parse_args_with_usage(defs, provided, build_usage(ext, cmd))

\* resolve_invocation: Ok(None), Ok(Some([ext, cmd, arg_values])) or Err; the
\* three helpers are its successive let-else stages.
resolve_parsed(found, found_cmd, parsed) ==
    IF parsed.ok
    THEN Ok(Some([ext |-> unwrap(found), cmd |-> unwrap(found_cmd), arg_values |-> parsed.v]))
    ELSE parsed

resolve_command(ext, found, found_cmd, args) ==
    IF ~is_some(found_cmd)
    THEN Err(InvalidInvocation("Unknown subcommand: " \o args[2],
                               "agent-browser " \o ext.name \o " <command> [args]"))
    ELSE resolve_parsed(found, found_cmd,
                        parse_args(ext, ext.commands[unwrap(found_cmd)],
                                   unwrap_or(ext.commands[unwrap(found_cmd)].args, <<>>),
                                   SubSeq(args, 3, Len(args))))

resolve_extension(extensions, found, args) ==
    IF ~is_some(found) THEN Ok(None)
    ELSE resolve_command(extensions[unwrap(found)], found,
                         find_command(extensions[unwrap(found)], args[2]), args)

\* Variant: an invocation needs a positional token besides the two names.
resolve_invocation_MinThree(extensions, args) ==
    IF Len(args) < 3 THEN Ok(None)
    ELSE resolve_extension(extensions, find(extensions, args[1]), args)

resolve_invocation(extensions, args) ==
    IF Len(args) < 2 THEN Ok(None)
    ELSE resolve_extension(extensions, find(extensions, args[1]), args)

(***************************************************************************)
(* Interpolation: exact_placeholder, interpolate_string, interpolate_value *)
(***************************************************************************)
exact_placeholder(s) ==
    IF starts_with(s, "{{") /\ ends_with(s, "}}") /\ Len(s) > 4
    THEN Some(SubSeq(s, 3, Len(s) - 2))
    ELSE None

\* The loop of interpolate_string over the entries of the map, taken in the
\* order `order` (a HashMap iterates in an order of its own).
RECURSIVE interpolate_entries(_, _, _)
interpolate_entries(out, args, order) ==
    IF order = <<>> THEN out
    ELSE LET key         == Head(order)
             value       == args[key]
             placeholder == "{{" \o key \o "}}"
             replacement == IF value.t = "string" THEN value.v ELSE value_to_string(value)
         IN  interpolate_entries(
                 IF contains(out, placeholder) THEN replace(out, placeholder, replacement) ELSE out,
                 args, Tail(order))

\* Variant: an exact placeholder bound to a scalar is substituted as text
\* like any other.
interpolate_string_Textual(s, args, order) ==
    LET key == exact_placeholder(s)
    IN  IF is_some(key) /\ unwrap(key) \in DOMAIN args
           /\ args[unwrap(key)].t \in {"array", "object"}
        THEN args[unwrap(key)]
        ELSE ValueString(interpolate_entries(s, args, order))

interpolate_string(s, args, order) ==
    LET key == exact_placeholder(s)
    IN  IF is_some(key) /\ unwrap(key) \in DOMAIN args
        THEN args[unwrap(key)]
        ELSE ValueString(interpolate_entries(s, args, order))

RECURSIVE interpolate_value(_, _, _)
interpolate_value(value, args, order) ==
    CASE value.t = "string" -> interpolate_string(value.v, args, order)
      [] value.t = "array"  ->
           ValueArray([i \in 1..Len(value.v) |-> interpolate_value(value.v[i], args, order)])
      [] value.t = "object" ->
           ValueObject([k \in DOMAIN value.v |-> interpolate_value(value.v[k], args, order)])
      [] OTHER -> value

\* ensure_command_id, given the id gen_id() would return.
\* Variant: the fresh id replaces an id the step has.
ensure_command_id_Overwrites(value, fresh) ==
    IF value.t # "object" THEN value
    ELSE ValueObject(map_insert(value.v, "id", ValueString(fresh)))

ensure_command_id(value, fresh) ==
    IF value.t # "object" THEN value
    ELSE IF "id" \in DOMAIN value.v THEN value
    ELSE ValueObject(map_insert(value.v, "id", ValueString(fresh)))

\* Whether ensure_command_id calls gen_id for this value.
needs_command_id(value) == value.t = "object" /\ "id" \notin DOMAIN value.v

(***************************************************************************)
(* Help: print_extension_help and print_extension_command_help.  The       *)
(* manifests carry no descriptions, so the lines printed for a description *)
(* never appear; the outcome is what the call returned and what it printed.*)
(***************************************************************************)
HelpOutcome(returned, printed) == [returned |-> returned, printed |-> printed]

\* The "  <name>" lines of a list of commands or arguments.
name_lines(items) == [i \in 1..Len(items) |-> "  " \o items[i].name]

print_extension_command_help(ext, cmd) ==
    <<"Usage: " \o build_usage(ext, cmd)>>
        \o (IF is_some(cmd.args) /\ unwrap(cmd.args) # <<>>
            THEN <<"", "Arguments:">> \o name_lines(unwrap(cmd.args))
            ELSE <<>>)

\* Variant: any command name the prefix is a leading part of is a match.
namespace_matches_NoDot(commands, prefix) ==
    SelectSeq(commands, LAMBDA c : c.name = prefix \/ starts_with(c.name, prefix))

\* The filter of print_extension_help: the commands named prefix or below the
\* namespace prefix.
namespace_matches(commands, prefix) ==
    SelectSeq(commands, LAMBDA c : c.name = prefix \/ starts_with(c.name, prefix \o "."))

command_list(ext, commands) ==
    <<"Usage: agent-browser " \o ext.name \o " <command> [args]", "", "Commands:">>
        \o name_lines(commands)

\* print_extension_help once the extension is found: the index of its
\* commands, the help of one command, or the commands of a namespace.
print_help_of(ext, prefix, exact, matches) ==
    IF prefix = "" THEN HelpOutcome(TRUE, command_list(ext, ext.commands))
    ELSE IF is_some(exact)
    THEN HelpOutcome(TRUE, print_extension_command_help(ext, ext.commands[unwrap(exact)]))
    ELSE IF matches = <<>> THEN HelpOutcome(FALSE, <<>>)
    ELSE HelpOutcome(TRUE, command_list(ext, matches))

print_help_found(registry, found, prefix) ==
    IF ~is_some(found) THEN HelpOutcome(FALSE, <<>>)
    ELSE print_help_of(registry[unwrap(found)], prefix,
                       find_command(registry[unwrap(found)], prefix),
                       namespace_matches(registry[unwrap(found)].commands, prefix))

print_extension_help(registry, name, prefix) ==
    print_help_found(registry, find(registry, name), unwrap_or(prefix, ""))

(***************************************************************************)
(* Collaborators consumed at their boundary: gen_id (crate::commands) and  *)
(* the daemon transport send_command / Response (crate::connection).       *)
(***************************************************************************)
\* The n-th id handed out by gen_id in this process: ids are unique.
gen_id(n) == "id-" \o ToString(n)

Response(success, data) == [success |-> success, data |-> data]

\* What the daemon can answer: the success flag and an opaque payload.
Responses == {Response(success, data) : success \in BOOLEAN, data \in 1..MaxData}

\* The transport's error messages.
TransportErrors == {"connection refused"}

\* Response::default(): no payload, success false.
DefaultResponse == Response(FALSE, 0)

(***************************************************************************)
(* The manifests loaded in the registry, and the invocations tried.        *)
(***************************************************************************)
StepClick ==
    ValueObject([action |-> ValueString("click"), selector |-> ValueString("{{selector}}")])
StepType ==
    ValueObject([action |-> ValueString("type"),
                 times  |-> ValueString("{{count}}"),
                 text   |-> ValueString("{{selector}} x{{count}} {{flag}}")])
StepSnapshot ==
    ValueObject([action |-> ValueString("snapshot"), id |-> ValueString("fixed-id")])
\* Placeholders below the top level, beside scalars that are no strings; the
\* id is a placeholder too.
StepNested ==
    ValueObject([action |-> ValueString("eval"),
                 id     |-> ValueString("{{x}}"),
                 items  |-> ValueArray(<<ValueString("{{count}}"),
                                         ValueInt(7),
                                         ValueObject([deep |-> ValueString("{{x}}"),
                                                      keep |-> ValueBool(TRUE),
                                                      text |-> ValueString("n={{x}};{{y}}")])>>)])
\* An object without an action field.
StepNoAction == ValueObject([selector |-> ValueString("#main")])
\* A template that is no object: what it becomes depends on the bound value.
StepPlaceholder == ValueString("{{what}}")

CmdHello ==
    ExtensionCommand("example.hello",
        Some(<<ExtensionArg("selector", None, None, None)>>),
        ExtensionHandler("daemon", None))
CmdFill ==
    ExtensionCommand("example.fill",
        Some(<<ExtensionArg("selector", Some("string"), None, None),
               ExtensionArg("count", Some("int"), Some(FALSE), Some(ValueInt(1))),
               ExtensionArg("flag", Some("bool"), Some(FALSE), None)>>),
        ExtensionHandler("macro", Some(<<StepClick, StepType, StepSnapshot>>)))
CmdSum ==
    ExtensionCommand("example.sum",
        Some(<<ExtensionArg("n", Some("int"), Some(TRUE), None),
               ExtensionArg("x", Some("number"), None, None),
               ExtensionArg("note", Some("text"), Some(FALSE), None)>>),
        ExtensionHandler("daemon", None))
CmdDup ==
    ExtensionCommand("example.dup",
        Some(<<ExtensionArg("a", None, None, None),
               ExtensionArg("a", Some("int"), Some(FALSE), Some(ValueInt(5)))>>),
        ExtensionHandler("daemon", None))
CmdNoSteps ==
    ExtensionCommand("nosteps", None, ExtensionHandler("macro", None))
CmdEmpty ==
    ExtensionCommand("empty", Some(<<>>), ExtensionHandler("macro", Some(<<>>)))
CmdScript ==
    ExtensionCommand("script.run", None, ExtensionHandler("script", None))
CmdPing ==
    ExtensionCommand("ping", None, ExtensionHandler("daemon", None))
CmdPartial ==
    ExtensionCommand("partial",
        Some(<<ExtensionArg("x", Some("number"), Some(FALSE), None),
               ExtensionArg("count", Some("int"), Some(FALSE), Some(ValueInt(7)))>>),
        ExtensionHandler("macro", Some(<<StepNested, StepNoAction, StepClick>>)))
CmdBare ==
    ExtensionCommand("bare",
        Some(<<ExtensionArg("what", None, Some(FALSE),
                            Some(ValueObject([action |-> ValueString("reload")])))>>),
        ExtensionHandler("macro", Some(<<StepSnapshot, StepPlaceholder>>)))
CmdWasm ==
    ExtensionCommand("wasm.run",
        Some(<<ExtensionArg("level", Some("int"), Some(TRUE), Some(ValueInt(3)))>>),
        ExtensionHandler("wasm", None))

MyExt ==
    ExtensionManifest("myext",
        <<CmdHello, CmdFill, CmdSum, CmdDup, CmdNoSteps, CmdEmpty, CmdScript>>)
Tools == ExtensionManifest("tools", <<CmdPing, CmdPartial, CmdBare, CmdWasm>>)

\* ExtensionRegistry.extensions: built once by load(), read-only afterwards.
extensions == <<MyExt, Tools>>

\* Token 0, token 1 and the positional tokens of the invocations tried.
ExtTokens == {"myext", "tools", "click"}
CmdTokens == {"example.hello", "example.fill", "example.sum", "example.dup",
              "nosteps", "empty", "script.run", "ping", "example", "hello",
              "partial", "bare", "wasm.run"}
ArgTokens == {"42", "true", "nan", "1.5", "{{count}}", "9223372036854775808"}

SeqsUpTo(S, n) == UNION {[1..k -> S] : k \in 0..n}

Invocations ==
    {<<>>} \cup {<<e>> : e \in ExtTokens}
        \cup {<<e, c>> \o rest : e \in ExtTokens, c \in CmdTokens,
                                 rest \in SeqsUpTo(ArgTokens, MaxProvided)}

\* Every order in which a HashMap with these keys can iterate.
Orders(keys) ==
    {o \in [1..Cardinality(keys) -> keys] : \A i, j \in DOMAIN o : i # j => o[i] # o[j]}

(***************************************************************************)
(* The file system as discovery and installation see it.  A path is the    *)
(* sequence of its components; the file system is the set of its           *)
(* directories and the contents of its files, a content being Some(value)  *)
(* for a text that parses as JSON and None for one that does not.          *)
(***************************************************************************)
join(path, component) == Append(path, component)

parent(path) == SubSeq(path, 1, Len(path) - 1)

file_name(path) == path[Len(path)]

FileSystem(dirs, files) == [dirs |-> dirs, files |-> files]

is_dir(fs, path) == path \in fs.dirs

is_file(fs, path) == path \in DOMAIN fs.files

exists(fs, path) == is_dir(fs, path) \/ is_file(fs, path)

\* The entries fs::read_dir yields for a directory, as a set: the order in
\* which it yields them is the file system's.
entries(fs, dir) ==
    {path \in fs.dirs \cup DOMAIN fs.files : Len(path) = Len(dir) + 1 /\ parent(path) = dir}

\* Every sequence in which read_dir can yield the entries.
read_dir(fs, dir) == Orders(entries(fs, dir))

\* serde's view of an ExtensionArg: name, and type, required and default
\* when present and not null.
field(object, key) ==
    IF key \in DOMAIN object /\ object[key].t # "null" THEN Some(object[key]) ELSE None

field_is(object, key, types) == key \notin DOMAIN object \/ object[key].t \in types

arg_from_value(value) ==
    IF /\ value.t = "object"
       /\ "name" \in DOMAIN value.v /\ value.v["name"].t = "string"
       /\ field_is(value.v, "type", {"string", "null"})
       /\ field_is(value.v, "required", {"bool", "null"})
    THEN Some(ExtensionArg(value.v["name"].v,
                           IF is_some(field(value.v, "type"))
                           THEN Some(value.v["type"].v) ELSE None,
                           IF is_some(field(value.v, "required"))
                           THEN Some(value.v["required"].v) ELSE None,
                           field(value.v, "default")))
    ELSE None

\* Option<Vec<T>>: every element has to deserialize.
all_some(options) == \A i \in 1..Len(options) : is_some(options[i])

unwrap_all(options) == [i \in 1..Len(options) |-> unwrap(options[i])]

args_from_value(object) ==
    IF ~is_some(field(object, "args")) THEN Some(None)
    ELSE IF object["args"].t # "array" THEN None
    ELSE IF ~all_some([i \in 1..Len(object["args"].v) |-> arg_from_value(object["args"].v[i])])
    THEN None
    ELSE Some(Some(unwrap_all([i \in 1..Len(object["args"].v) |->
                                   arg_from_value(object["args"].v[i])])))

handler_from_value(value) ==
    IF /\ value.t = "object"
       /\ "type" \in DOMAIN value.v /\ value.v["type"].t = "string"
       /\ field_is(value.v, "steps", {"array", "null"})
    THEN Some(ExtensionHandler(value.v["type"].v,
                               IF is_some(field(value.v, "steps"))
                               THEN Some(value.v["steps"].v) ELSE None))
    ELSE None

command_from_value(value) ==
    IF /\ value.t = "object"
       /\ "name" \in DOMAIN value.v /\ value.v["name"].t = "string"
       /\ "handler" \in DOMAIN value.v /\ is_some(handler_from_value(value.v["handler"]))
       /\ is_some(args_from_value(value.v))
    THEN Some(ExtensionCommand(value.v["name"].v,
                               unwrap(args_from_value(value.v)),
                               unwrap(handler_from_value(value.v["handler"]))))
    ELSE None

\* serde_json::from_str::<ExtensionManifest> on a text that parsed to value:
\* name and commands are needed, the optional strings are strings when they
\* are there, fields the struct does not have are ignored.
manifest_from_value(value) ==
    IF /\ value.t = "object"
       /\ "name" \in DOMAIN value.v /\ value.v["name"].t = "string"
       /\ \A key \in {"version", "description", "entry", "minCliVersion", "maxCliVersion"} :
             field_is(value.v, key, {"string", "null"})
       /\ field_is(value.v, "permissions", {"array", "null"})
       /\ "commands" \in DOMAIN value.v /\ value.v["commands"].t = "array"
       /\ all_some([i \in 1..Len(value.v["commands"].v) |->
                       command_from_value(value.v["commands"].v[i])])
    THEN Some(ExtensionManifest(value.v["name"].v,
                                unwrap_all([i \in 1..Len(value.v["commands"].v) |->
                                                command_from_value(value.v["commands"].v[i])])))
    ELSE None

load_manifest(fs, path) ==
    IF ~is_file(fs, path) THEN None
    ELSE IF ~is_some(fs.files[path]) THEN None
    ELSE manifest_from_value(unwrap(fs.files[path]))

(***************************************************************************)
(* Discovery: discover_extension_roots, load_extensions_from_root,         *)
(* load_extensions_from_node_modules, is_plugin_package_name,              *)
(* strip_package_version, ExtensionRegistry::load.  A loaded manifest is   *)
(* recorded by the file it was read from; since read_dir yields entries in *)
(* an order of its own, each loader gives the set of the sequences it can  *)
(* append.                                                                 *)
(***************************************************************************)
\* Last index at or before `from` where p occurs in s, 0 when there is none.
RECURSIVE rfind_from(_, _, _)
rfind_from(s, p, from) ==
    IF from < 1 THEN 0
    ELSE IF from + Len(p) - 1 <= Len(s) /\ SubSeq(s, from, from + Len(p) - 1) = p THEN from
    ELSE rfind_from(s, p, from - 1)

str_find(s, p) == find_from(s, p, 1)

str_rfind(s, p) == rfind_from(s, p, Len(s))

\* strip_package_version for a scoped name whose slash is at `slash`.
strip_scoped_version(name, slash, at) ==
    IF at # 0 THEN Some(SubSeq(name, 1, slash + at - 1)) ELSE Some(name)

strip_unscoped_version(name, at) ==
    IF at # 0 THEN Some(SubSeq(name, 1, at - 1)) ELSE Some(name)

strip_package_version(name) ==
    IF starts_with(name, "@")
    THEN IF str_find(name, "/") = 0 THEN None
         ELSE strip_scoped_version(name, str_find(name, "/"),
                  str_rfind(SubSeq(name, str_find(name, "/") + 1, Len(name)), "@"))
    ELSE strip_unscoped_version(name, str_rfind(name, "@"))

PluginPrefix == "agent-browser-plugin-"

\* base.split_once('/') and the tests on its halves, slash being where the
\* first '/' of base is (0 when there is none).
is_plugin_base(base, slash) ==
    IF slash # 0
    THEN IF ~starts_with(SubSeq(base, 1, slash - 1), "@") THEN FALSE
         ELSE starts_with(SubSeq(base, slash + 1, Len(base)), PluginPrefix)
    ELSE starts_with(base, PluginPrefix)

is_plugin_package_name(name) ==
    IF is_some(strip_package_version(name))
    THEN is_plugin_base(unwrap(strip_package_version(name)),
                        str_find(unwrap(strip_package_version(name)), "/"))
    ELSE FALSE

\* if let Some(manifest) = load_manifest(path) { out.push(manifest) }
push_manifest(fs, path) == IF is_some(load_manifest(fs, path)) THEN <<path>> ELSE <<>>

concat_all(firsts, seconds) == {a \o b : a \in firsts, b \in seconds}

\* The loop over the entries of a scope directory, in the order read.
RECURSIVE scoped_from(_, _, _)
scoped_from(fs, scope, pkgs) ==
    IF pkgs = <<>> THEN <<>>
    ELSE (IF is_plugin_package_name(scope \o "/" \o file_name(Head(pkgs)))
          THEN push_manifest(fs, join(Head(pkgs), "extension.json"))
          ELSE <<>>) \o scoped_from(fs, scope, Tail(pkgs))

\* The body of the loop of load_extensions_from_node_modules for one entry.
node_modules_entry(fs, path) ==
    IF starts_with(file_name(path), "@") /\ is_dir(fs, path)
    THEN {scoped_from(fs, file_name(path), pkgs) : pkgs \in read_dir(fs, path)}
    ELSE IF is_dir(fs, path) /\ is_plugin_package_name(file_name(path))
    THEN {push_manifest(fs, join(path, "extension.json"))}
    ELSE {<<>>}

RECURSIVE node_modules_from(_, _)
node_modules_from(fs, paths) ==
    IF paths = <<>> THEN {<<>>}
    ELSE concat_all(node_modules_entry(fs, Head(paths)), node_modules_from(fs, Tail(paths)))

load_extensions_from_node_modules(fs, root) ==
    IF ~exists(fs, root) THEN {<<>>}
    ELSE IF ~is_dir(fs, root) THEN {<<>>}
    ELSE UNION {node_modules_from(fs, paths) : paths \in read_dir(fs, root)}

\* The loop of load_extensions_from_root over the entries of the root.
RECURSIVE subdirs_from(_, _)
subdirs_from(fs, paths) ==
    IF paths = <<>> THEN <<>>
    ELSE (IF is_dir(fs, Head(paths))
          THEN push_manifest(fs, join(Head(paths), "extension.json"))
          ELSE <<>>) \o subdirs_from(fs, Tail(paths))

load_extensions_from_root(fs, root) ==
    IF ~exists(fs, root) THEN {<<>>}
    ELSE concat_all(
             concat_all({push_manifest(fs, join(root, "extension.json"))},
                        load_extensions_from_node_modules(fs, join(root, "node_modules"))),
             IF is_dir(fs, root)
             THEN {subdirs_from(fs, paths) : paths \in read_dir(fs, root)}
             ELSE {<<>>})

\* The process environment: the two override variables (None when unset, the
\* empty path for an empty value), env::current_dir() and dirs::config_dir().
Environment(plugins_dir, extensions_dir, current_dir, config_dir) ==
    [plugins_dir |-> plugins_dir, extensions_dir |-> extensions_dir,
     current_dir |-> current_dir, config_dir |-> config_dir]

env_root(dir) == IF is_some(dir) /\ unwrap(dir) # <<>> THEN <<unwrap(dir)>> ELSE <<>>

\* Variant: the user-config roots are visited before the others.
discover_extension_roots_ConfigFirst(environment) ==
    (IF is_some(environment.config_dir)
     THEN <<join(join(unwrap(environment.config_dir), "agent-browser"), "plugins"),
            join(join(unwrap(environment.config_dir), "agent-browser"), "extensions")>>
     ELSE <<>>)
        \o env_root(environment.plugins_dir)
        \o env_root(environment.extensions_dir)
        \o (IF is_some(environment.current_dir)
            THEN <<join(join(unwrap(environment.current_dir), ".agent-browser"), "plugins"),
                   join(join(unwrap(environment.current_dir), ".agent-browser"), "extensions")>>
            ELSE <<>>)

discover_extension_roots(environment) ==
    env_root(environment.plugins_dir)
        \o env_root(environment.extensions_dir)
        \o (IF is_some(environment.current_dir)
            THEN <<join(join(unwrap(environment.current_dir), ".agent-browser"), "plugins"),
                   join(join(unwrap(environment.current_dir), ".agent-browser"), "extensions")>>
            ELSE <<>>)
        \o (IF is_some(environment.config_dir)
            THEN <<join(join(unwrap(environment.config_dir), "agent-browser"), "plugins"),
                   join(join(unwrap(environment.config_dir), "agent-browser"), "extensions")>>
            ELSE <<>>)

RECURSIVE load_roots(_, _)
load_roots(fs, roots) ==
    IF roots = <<>> THEN {<<>>}
    ELSE concat_all(load_extensions_from_root(fs, Head(roots)), load_roots(fs, Tail(roots)))

\* ExtensionRegistry::load: the files whose manifests it can hold, in order.
load(environment, fs) ==
    concat_all(load_roots(fs, discover_extension_roots(environment)),
               IF is_some(environment.current_dir)
               THEN load_extensions_from_node_modules(
                        fs, join(unwrap(environment.current_dir), "node_modules"))
               ELSE {<<>>})

\* The registry holding the manifests of these files.
ExtensionRegistry(fs, loaded) ==
    [i \in 1..Len(loaded) |-> unwrap(load_manifest(fs, loaded[i]))]

list(registry) == registry

(***************************************************************************)
(* Installation from a local directory (commands.rs): resolve_plugins_root,*)
(* read_package_name, is_plugin_package_name, sanitize_plugin_dir,         *)
(* copy_dir_recursive, find_manifest, install_from_path_result.  A step of *)
(* the copy can fail with an I/O error, so a copy and an installation give *)
(* the set of the outcomes they can have.  The disk holds directories and  *)
(* regular files only.                                                     *)
(***************************************************************************)
User == [kind |-> "User", path |-> <<>>]
Local == [kind |-> "Local", path |-> <<>>]
Custom(path) == [kind |-> "Custom", path |-> path]
Auto == [kind |-> "Auto", path |-> <<>>]

\* Result<PathBuf, String>
RootOk(path) == [ok |-> TRUE, error |-> "", path |-> path]
RootErr(message) == [ok |-> FALSE, error |-> message, path |-> <<>>]

\* e.to_string() of an std::io::Error.
IoError == "io error"

user_plugins_root(environment) ==
    IF ~is_some(environment.config_dir)
    THEN RootErr("Could not resolve user config directory")
    ELSE RootOk(join(join(unwrap(environment.config_dir), "agent-browser"), "plugins"))

resolve_plugins_root(fs, environment, location) ==
    IF location.kind = "Custom" THEN RootOk(location.path)
    ELSE IF location.kind = "Local"
    THEN IF ~is_some(environment.current_dir) THEN RootErr(IoError)
         ELSE RootOk(join(join(unwrap(environment.current_dir), ".agent-browser"), "plugins"))
    ELSE IF location.kind = "User" THEN user_plugins_root(environment)
    ELSE IF ~is_some(environment.current_dir) THEN RootErr(IoError)
    ELSE IF exists(fs, join(join(unwrap(environment.current_dir), ".agent-browser"), "plugins"))
    THEN RootOk(join(join(unwrap(environment.current_dir), ".agent-browser"), "plugins"))
    ELSE user_plugins_root(environment)

\* is_plugin_package_name of commands.rs, which strips no version.
commands_is_plugin_package_name(name) == is_plugin_base(name, str_find(name, "/"))

RECURSIVE trim_start_matches(_, _)
trim_start_matches(s, p) ==
    IF starts_with(s, p) /\ p # "" THEN trim_start_matches(SubSeq(s, Len(p) + 1, Len(s)), p) ELSE s

sanitize_plugin_dir(name) == replace(trim_start_matches(name, "@"), "/", "__")

read_package_name(fs, dir) ==
    IF ~exists(fs, join(dir, "package.json")) THEN None
    ELSE IF ~is_file(fs, join(dir, "package.json")) THEN None
    ELSE IF ~is_some(fs.files[join(dir, "package.json")]) THEN None
    ELSE IF /\ unwrap(fs.files[join(dir, "package.json")]).t = "object"
            /\ "name" \in DOMAIN unwrap(fs.files[join(dir, "package.json")]).v
            /\ unwrap(fs.files[join(dir, "package.json")]).v["name"].t = "string"
    THEN Some(unwrap(fs.files[join(dir, "package.json")]).v["name"].v)
    ELSE None

\* The file system calls of copy_dir_recursive.
CreateDirAll(path) == [op |-> "create_dir_all", from |-> <<>>, to |-> path]
ReadDir(path) == [op |-> "read_dir", from |-> path, to |-> <<>>]
Copy(from, to) == [op |-> "copy", from |-> from, to |-> to]

\* A path and the directories above it.
Prefixes(path) == {SubSeq(path, 1, k) : k \in 1..Len(path)}

\* Whether the call can return Ok on this disk, and the disk it leaves then.
can_succeed(fs, call) ==
    IF call.op = "create_dir_all" THEN \A p \in Prefixes(call.to) : ~is_file(fs, p)
    ELSE IF call.op = "read_dir" THEN is_dir(fs, call.from)
    ELSE is_file(fs, call.from) /\ ~is_dir(fs, call.to) /\ is_dir(fs, parent(call.to))

apply(fs, call) ==
    IF call.op = "create_dir_all" THEN FileSystem(fs.dirs \cup Prefixes(call.to), fs.files)
    ELSE IF call.op = "read_dir" THEN fs
    ELSE FileSystem(fs.dirs, [p \in DOMAIN fs.files \cup {call.to} |->
                                 IF p = call.to THEN fs.files[call.from] ELSE fs.files[p]])

\* The calls copy_dir_recursive makes when none of them fails, for every
\* order in which the directories can be read.
RECURSIVE copy_calls(_, _, _)
RECURSIVE copy_entries(_, _, _)
copy_entry(fs, path, dest) ==
    IF file_name(path) = "node_modules" THEN {<<>>}
    ELSE IF is_dir(fs, path) THEN copy_calls(fs, path, join(dest, file_name(path)))
    ELSE {<<Copy(path, join(dest, file_name(path)))>>}

copy_entries(fs, paths, dest) ==
    IF paths = <<>> THEN {<<>>}
    ELSE concat_all(copy_entry(fs, Head(paths), dest), copy_entries(fs, Tail(paths), dest))

copy_calls(fs, src, dest) ==
    IF ~is_dir(fs, src) THEN {<<CreateDirAll(dest), ReadDir(src)>>}
    ELSE {<<CreateDirAll(dest), ReadDir(src)>> \o rest :
             rest \in UNION {copy_entries(fs, paths, dest) : paths \in read_dir(fs, src)}}

\* Result<(), String> of a copy, with the disk it leaves.
Copied(fs, ok) == [fs |-> fs, ok |-> ok]

\* Making the calls in turn: each returns an error, which `?` passes on, or
\* succeeds if it can.
RECURSIVE run(_, _)
run(fs, calls) ==
    IF calls = <<>> THEN {Copied(fs, TRUE)}
    ELSE {Copied(fs, FALSE)}
             \cup (IF can_succeed(fs, Head(calls))
                   THEN run(apply(fs, Head(calls)), Tail(calls))
                   ELSE {})

copy_dir_recursive(fs, src, dest) ==
    UNION {run(fs, calls) : calls \in copy_calls(fs, src, dest)}

\* The loop of find_manifest_in_node_modules over the entries of a scope.
RECURSIVE scope_manifest(_, _)
scope_manifest(fs, pkgs) ==
    IF pkgs = <<>> THEN None
    ELSE IF exists(fs, join(Head(pkgs), "extension.json"))
    THEN Some(join(Head(pkgs), "extension.json"))
    ELSE scope_manifest(fs, Tail(pkgs))

\* What one entry of node_modules can make the loop return, None if nothing.
node_modules_manifest(fs, path) ==
    IF starts_with(file_name(path), "@") /\ is_dir(fs, path)
    THEN {scope_manifest(fs, pkgs) : pkgs \in read_dir(fs, path)}
    ELSE IF is_dir(fs, path) /\ exists(fs, join(path, "extension.json"))
    THEN {Some(join(path, "extension.json"))}
    ELSE {None}

RECURSIVE first_manifest(_, _)
first_manifest(fs, paths) ==
    IF paths = <<>> THEN {None}
    ELSE UNION {IF is_some(found) THEN {found} ELSE first_manifest(fs, Tail(paths)) :
                   found \in node_modules_manifest(fs, Head(paths))}

find_manifest_in_node_modules(fs, root) ==
    IF ~exists(fs, root) THEN {None}
    ELSE IF ~is_dir(fs, root) THEN {None}
    ELSE UNION {first_manifest(fs, paths) : paths \in read_dir(fs, root)}

find_manifest(fs, root) ==
    IF exists(fs, join(root, "extension.json")) THEN {Some(join(root, "extension.json"))}
    ELSE find_manifest_in_node_modules(fs, join(root, "node_modules"))

\* Result<InstallOutcome, String>
InstallOutcome(package, dir, manifest) ==
    [ok |-> TRUE, error |-> "", package |-> package, dir |-> dir, manifest |-> manifest]

InstallErr(message) ==
    [ok |-> FALSE, error |-> message, package |-> "", dir |-> <<>>, manifest |-> FALSE]

\* What a call returns and the disk it leaves.
Installed(fs, result) == [fs |-> fs, result |-> result]

\* The name in package.json, else the last component of the source path.
package_name(fs, src) ==
    IF is_some(read_package_name(fs, src)) THEN read_package_name(fs, src)
    ELSE IF src = <<>> THEN None
    ELSE Some(file_name(src))

\* Variant: an existing target directory is copied over.
install_into_Overwrites(fs, src, pkg_name, target_dir) ==
    UNION {IF copied.ok
           THEN {Installed(copied.fs, InstallOutcome(pkg_name, target_dir, is_some(manifest))) :
                    manifest \in find_manifest(copied.fs, target_dir)}
           ELSE {Installed(copied.fs, InstallErr(IoError))} :
              copied \in copy_dir_recursive(fs, src, target_dir)}

\* install_from_path_result from the test of the target directory on.
install_into(fs, src, pkg_name, target_dir) ==
    IF exists(fs, target_dir) THEN {Installed(fs, InstallErr("Plugin already exists"))}
    ELSE UNION {IF copied.ok
                THEN {Installed(copied.fs, InstallOutcome(pkg_name, target_dir, is_some(manifest))) :
                         manifest \in find_manifest(copied.fs, target_dir)}
                ELSE {Installed(copied.fs, InstallErr(IoError))} :
                   copied \in copy_dir_recursive(fs, src, target_dir)}

NoPluginPackage ==
    "No plugin package found. Package must match agent-browser-plugin-* or @scope/agent-browser-plugin-*"

\* install_from_path_result from the test of the package name on.
install_package(fs, src, root, pkg_name) ==
    IF ~commands_is_plugin_package_name(pkg_name) THEN {Installed(fs, InstallErr(NoPluginPackage))}
    ELSE install_into(fs, src, pkg_name, join(root, sanitize_plugin_dir(pkg_name)))

install_from_path_result(fs, environment, src, location) ==
    IF ~resolve_plugins_root(fs, environment, location).ok
    THEN {Installed(fs, InstallErr(resolve_plugins_root(fs, environment, location).error))}
    ELSE IF ~is_some(package_name(fs, src))
    THEN {Installed(fs, InstallErr("Invalid plugin path"))}
    ELSE install_package(fs, src, resolve_plugins_root(fs, environment, location).path,
                         unwrap(package_name(fs, src)))

(***************************************************************************)
(* One call of try_execute_extension against the daemon.                   *)
(***************************************************************************)
VARIABLES
    args,           \* the tokens of the invocation
    pc,             \* "start", "execute", "await" (blocked in send_command), "done"
    resolved,       \* Option<(ext, cmd, arg_values)> returned by resolve_invocation
    arg_order,      \* the iteration order of the arg_values HashMap
    step,           \* index of the macro step whose request is in flight
    last_response,  \* last_response of the macro loop
    sent,           \* requests handed to send_command, in order
    received,       \* what send_command returned for them, in order
    next_id,        \* number of ids gen_id has handed out, plus one
    result          \* what try_execute_extension returned

\* One call of print_extension_help.
VARIABLES
    help_name,      \* its name argument
    help_prefix,    \* its prefix argument, an Option
    help_returned,  \* None until it returns, then Some of what it returned
    stdout          \* the lines it printed

\* One process start: ExtensionRegistry::load and a find on what it built.
VARIABLES
    environment,    \* the override variables, the working and the config directory
    fs,             \* the file system
    registry,       \* None until load returns, then Some of the manifests it holds
    origin,         \* for each manifest of the registry, the file it was read from
    lookup          \* None until find returns, then Some of its argument and result

\* Calls of install_from_path_result, one after the other.
VARIABLES
    installs,       \* the number of calls so far
    last_install,   \* None, or Some of the last call: source, location, root, result
    fs_before,      \* the file system as the last call found it
    installed       \* the sources and roots of the calls that had returned Ok by then

exec_vars == <<args, pc, resolved, arg_order, step, last_response, sent,
               received, next_id, result>>

help_vars == <<help_name, help_prefix, help_returned, stdout>>

disk_vars == <<environment, fs, registry, origin, lookup>>

install_vars == <<installs, last_install, fs_before, installed>>

\* What a call of try_execute_extension leaves alone.
beside_exec == <<help_vars, disk_vars, install_vars>>

\* What a call of print_extension_help leaves alone.
beside_help == <<exec_vars, disk_vars, install_vars>>

vars == <<exec_vars, help_vars, disk_vars, install_vars>>

\* No discovery is under way: nothing on disk, nothing in the environment.
DiskIdle ==
    /\ environment = Environment(None, None, None, None)
    /\ fs = FileSystem({}, <<>>)
    /\ registry = None
    /\ origin = <<>>
    /\ lookup = None

\* No call of print_extension_help is under way.
HelpIdle ==
    /\ help_name = ""
    /\ help_prefix = None
    /\ help_returned = None
    /\ stdout = <<>>

\* No installation has been asked for.
InstallIdle ==
    /\ installs = 0
    /\ last_install = None
    /\ fs_before = FileSystem({}, <<>>)
    /\ installed = {}

Init ==
    /\ args \in Invocations
    /\ pc = "start"
    /\ resolved = None
    /\ arg_order = <<>>
    /\ step = 0
    /\ last_response = DefaultResponse
    /\ sent = <<>>
    /\ received = <<>>
    /\ next_id = 1
    /\ result = Pending
    /\ HelpIdle
    /\ DiskIdle
    /\ InstallIdle

ext == extensions[unwrap(resolved).ext]
cmd == ext.commands[unwrap(resolved).cmd]
arg_values == unwrap(resolved).arg_values

Return(r) ==
    /\ result' = r
    /\ pc' = "done"

\* try_execute_extension from the outcome r of resolve_invocation up to the
\* call of execute_extension_command.
Resolved(r) ==
    \/ /\ ~r.ok
       /\ Return(r.v)
       /\ UNCHANGED <<resolved, arg_order>>
    \/ /\ r.ok /\ r.v = None
       /\ Return(OkNone)
       /\ UNCHANGED <<resolved, arg_order>>
    \/ /\ r.ok /\ r.v # None
       /\ resolved' = r.v
       /\ arg_order' \in Orders(DOMAIN unwrap(r.v).arg_values)
       /\ pc' = "execute"
       /\ UNCHANGED result

Resolve ==
    /\ pc = "start"
    /\ Resolved(resolve_invocation(extensions, args))
    /\ UNCHANGED <<args, step, last_response, sent, received, next_id>>
    /\ UNCHANGED beside_exec

\* Variant: the request is handed to the transport before its action field
\* is looked at.
MacroSend_SendsBeforeCheck(k, rendered) ==
    IF ~is_some(value_get(rendered, "action"))
    THEN /\ Return(InvalidInvocation("Macro step missing action field", build_usage(ext, cmd)))
         /\ sent' = Append(sent, rendered)
         /\ UNCHANGED step
    ELSE /\ sent' = Append(sent, rendered)
         /\ step' = k
         /\ pc' = "await"
         /\ UNCHANGED result

\* Variant: only an object is looked at for its action field; any other
\* value is sent as it is.
MacroSend_ObjectsOnly(k, rendered) ==
    IF rendered.t = "object" /\ ~is_some(value_get(rendered, "action"))
    THEN /\ Return(InvalidInvocation("Macro step missing action field", build_usage(ext, cmd)))
         /\ UNCHANGED <<step, sent>>
    ELSE /\ sent' = Append(sent, rendered)
         /\ step' = k
         /\ pc' = "await"
         /\ UNCHANGED result

\* The body of the macro loop for step k once the template is interpolated and
\* has its id: the step without action fails, any other is handed to
\* send_command, where the call blocks.
MacroSend(k, rendered) ==
    IF ~is_some(value_get(rendered, "action"))
    THEN /\ Return(InvalidInvocation("Macro step missing action field", build_usage(ext, cmd)))
         /\ UNCHANGED <<step, sent>>
    ELSE /\ sent' = Append(sent, rendered)
         /\ step' = k
         /\ pc' = "await"
         /\ UNCHANGED result

MacroStep(k, interpolated) ==
    /\ next_id' = IF needs_command_id(interpolated) THEN next_id + 1 ELSE next_id
    /\ MacroSend(k, ensure_command_id(interpolated, gen_id(next_id)))

\* Variant: the loop stops one step early.
MacroLoop_OffByOne(k, last) ==
    /\ last_response' = last
    /\ IF k >= Len(unwrap(cmd.handler.steps))
       THEN /\ Return(OkSome(last))
            /\ UNCHANGED <<step, sent, next_id>>
       ELSE MacroStep(k, interpolate_value(unwrap(cmd.handler.steps)[k], arg_values, arg_order))

\* The macro loop entered at step k with last_response = last: it returns
\* after the last step, or runs the body for step k.
MacroLoop(k, last) ==
    /\ last_response' = last
    /\ IF k > Len(unwrap(cmd.handler.steps))
       THEN /\ Return(OkSome(last))
            /\ UNCHANGED <<step, sent, next_id>>
       ELSE MacroStep(k, interpolate_value(unwrap(cmd.handler.steps)[k], arg_values, arg_order))

\* execute_extension_command, handler type "macro", up to its first send.
ExecuteMacro ==
    /\ pc = "execute"
    /\ cmd.handler.handler_type = "macro"
    /\ IF ~is_some(cmd.handler.steps)
       THEN /\ Return(InvalidInvocation("Macro handler missing steps", build_usage(ext, cmd)))
            /\ UNCHANGED <<step, last_response, sent, next_id>>
       ELSE MacroLoop(1, DefaultResponse)
    /\ UNCHANGED <<args, resolved, arg_order, received>>
    /\ UNCHANGED beside_exec

\* Variant: the envelope names the command where the extension belongs and
\* the extension where the command belongs.
ExecuteDaemon_SwappedNames ==
    /\ pc = "execute"
    /\ cmd.handler.handler_type = "daemon"
    /\ sent' = Append(sent,
                 ValueObject([id        |-> ValueString(gen_id(next_id)),
                              action    |-> ValueString("extension"),
                              extension |-> ValueString(cmd.name),
                              command   |-> ValueString(ext.name),
                              args      |-> ValueObject(arg_values)]))
    /\ next_id' = next_id + 1
    /\ pc' = "await"
    /\ UNCHANGED <<args, resolved, arg_order, step, last_response, received, result>>
    /\ UNCHANGED beside_exec

\* execute_extension_command, handler type "daemon", up to its send.
ExecuteDaemon ==
    /\ pc = "execute"
    /\ cmd.handler.handler_type = "daemon"
    /\ sent' = Append(sent,
                 ValueObject([id        |-> ValueString(gen_id(next_id)),
                              action    |-> ValueString("extension"),
                              extension |-> ValueString(ext.name),
                              command   |-> ValueString(cmd.name),
                              args      |-> ValueObject(arg_values)]))
    /\ next_id' = next_id + 1
    /\ pc' = "await"
    /\ UNCHANGED <<args, resolved, arg_order, step, last_response, received, result>>
    /\ UNCHANGED beside_exec

\* Variant: the message names the command where the handler type belongs.
ExecuteUnsupported_NamesCommand ==
    /\ pc = "execute"
    /\ cmd.handler.handler_type \notin {"macro", "daemon"}
    /\ Return(InvalidInvocation("Unsupported handler type: " \o cmd.name,
                                build_usage(ext, cmd)))
    /\ UNCHANGED <<args, resolved, arg_order, step, last_response, sent,
                   received, next_id>>
    /\ UNCHANGED beside_exec

\* execute_extension_command, any other handler type.
ExecuteUnsupported ==
    /\ pc = "execute"
    /\ cmd.handler.handler_type \notin {"macro", "daemon"}
    /\ Return(InvalidInvocation("Unsupported handler type: " \o cmd.handler.handler_type,
                                build_usage(ext, cmd)))
    /\ UNCHANGED <<args, resolved, arg_order, step, last_response, sent,
                   received, next_id>>
    /\ UNCHANGED beside_exec

\* Variant: a macro goes on after a response that reports failure.
SendCommandOk_NoFailFast ==
    /\ pc = "await"
    /\ \E response \in Responses :
          /\ received' = Append(received, Ok(response))
          /\ IF cmd.handler.handler_type = "macro"
             THEN MacroLoop(step + 1, response)
             ELSE IF ~response.success
             THEN /\ Return(CommandFailed(response))
                  /\ UNCHANGED <<step, last_response, sent, next_id>>
             ELSE /\ Return(OkSome(response))
                  /\ UNCHANGED <<step, last_response, sent, next_id>>
    /\ UNCHANGED <<args, resolved, arg_order>>
    /\ UNCHANGED beside_exec

\* send_command returns Ok(response): the rest of the loop body and the next
\* iteration (macro), or the return (daemon).
SendCommandOk ==
    /\ pc = "await"
    /\ \E response \in Responses :
          /\ received' = Append(received, Ok(response))
          /\ IF ~response.success
             THEN /\ Return(CommandFailed(response))
                  /\ UNCHANGED <<step, last_response, sent, next_id>>
             ELSE IF cmd.handler.handler_type = "macro"
             THEN MacroLoop(step + 1, response)
             ELSE /\ Return(OkSome(response))
                  /\ UNCHANGED <<step, last_response, sent, next_id>>
    /\ UNCHANGED <<args, resolved, arg_order>>
    /\ UNCHANGED beside_exec

\* Variant: the first transport failure of a call is answered by sending the
\* request again.
SendCommandErr_RetryOnce ==
    /\ pc = "await"
    /\ \E message \in TransportErrors :
          /\ received' = Append(received, Err(message))
          /\ IF \A j \in 1..Len(received) : received[j].ok
             THEN /\ sent' = Append(sent, sent[Len(sent)])
                  /\ UNCHANGED <<pc, result>>
             ELSE /\ Return(Io(message))
                  /\ UNCHANGED sent
    /\ UNCHANGED <<args, resolved, arg_order, step, last_response, next_id>>
    /\ UNCHANGED beside_exec

\* send_command returns Err(message).
SendCommandErr ==
    /\ pc = "await"
    /\ \E message \in TransportErrors :
          /\ received' = Append(received, Err(message))
          /\ Return(Io(message))
    /\ UNCHANGED <<args, resolved, arg_order, step, last_response, sent, next_id>>
    /\ UNCHANGED beside_exec

Next ==
    \/ Resolve
    \/ ExecuteMacro
    \/ ExecuteDaemon
    \/ ExecuteUnsupported
    \/ SendCommandOk
    \/ SendCommandErr

Spec == Init /\ [][Next]_vars

(***************************************************************************)
(* One call of print_extension_help on the same registry.                  *)
(***************************************************************************)
\* No call of try_execute_extension is under way.
ExecIdle ==
    /\ args = <<>>
    /\ pc = "start"
    /\ resolved = None
    /\ arg_order = <<>>
    /\ step = 0
    /\ last_response = DefaultResponse
    /\ sent = <<>>
    /\ received = <<>>
    /\ next_id = 1
    /\ result = Pending

\* The leading parts of a string, the empty one and the string itself included.
LeadingParts(s) == {SubSeq(s, 1, k) : k \in 0..Len(s)}

\* The names and prefixes asked for: every leading part of every command
\* token, and no prefix at all.
HelpNames == ExtTokens
HelpPrefixes == {None} \cup {Some(p) : p \in UNION {LeadingParts(c) : c \in CmdTokens}}

InitHelp ==
    /\ ExecIdle
    /\ DiskIdle
    /\ InstallIdle
    /\ help_name \in HelpNames
    /\ help_prefix \in HelpPrefixes
    /\ help_returned = None
    /\ stdout = <<>>

HelpReturns(outcome) ==
    /\ help_returned' = Some(outcome.returned)
    /\ stdout' = outcome.printed

PrintExtensionHelp ==
    /\ help_returned = None
    /\ HelpReturns(print_extension_help(extensions, help_name, help_prefix))
    /\ UNCHANGED <<help_name, help_prefix>>
    /\ UNCHANGED beside_help

NextHelp == PrintExtensionHelp

SpecHelp == InitHelp /\ [][NextHelp]_vars

(***************************************************************************)
(* One process start: load builds the registry from the disk, find looks a *)
(* name up in it.                                                          *)
(***************************************************************************)
MaxFiles == 2

EnvDir == <<"env">>
CurrentDir == <<"cwd">>
ConfigDir == <<"cfg">>

\* Where an extension.json may lie: in each kind of root, directly, in a
\* subdirectory, in scoped and unscoped modules with and without a plugin
\* name, and in node_modules itself.
ManifestPlaces ==
    {<<"env", "extension.json">>,
     <<"env", "sub", "extension.json">>,
     <<"env", "node_modules", "extension.json">>,
     <<"env", "node_modules", "@s", "agent-browser-plugin-x", "extension.json">>,
     <<"env", "node_modules", "agent-browser-plugin-y@2", "extension.json">>,
     <<"env", "node_modules", "left-pad", "extension.json">>,
     <<"cwd", ".agent-browser", "plugins", "extension.json">>,
     <<"cwd", ".agent-browser", "extensions", "sub", "extension.json">>,
     <<"cwd", "node_modules", "agent-browser-plugin-y", "extension.json">>,
     <<"cwd", "node_modules", "@s", "left-pad", "extension.json">>,
     <<"cfg", "agent-browser", "plugins", "sub", "extension.json">>,
     <<"cfg", "agent-browser", "extensions", "extension.json">>}

ManifestText(name) ==
    Some(ValueObject([name |-> ValueString(name), commands |-> ValueArray(<<>>),
                      homepage |-> ValueString("https://example.test")]))

\* What such a file may hold: a manifest named a or b, or JSON that is no
\* manifest because it has no commands.
ManifestTexts ==
    {ManifestText("a"), ManifestText("b"), Some(ValueObject([name |-> ValueString("a")]))}

LookupNames == {"a", "b"}

\* The directories above a file.
Ancestors(path) == {SubSeq(path, 1, k) : k \in 1..(Len(path) - 1)}

FileSystems ==
    {FileSystem(UNION {Ancestors(path) : path \in DOMAIN files}, files) :
        files \in UNION {[places -> ManifestTexts] :
                            places \in {P \in SUBSET ManifestPlaces : Cardinality(P) <= MaxFiles}}}

\* Overrides unset, empty, set, equal to each other, inside each other and
\* equal to a fixed location; working and config directory known or not.
Environments ==
    {Environment(None, None, None, None),
     Environment(Some(EnvDir), None, Some(CurrentDir), Some(ConfigDir)),
     Environment(Some(<<>>), Some(EnvDir), Some(CurrentDir), Some(ConfigDir)),
     Environment(None, Some(<<>>), None, Some(ConfigDir)),
     Environment(Some(EnvDir), Some(EnvDir), Some(CurrentDir), None),
     Environment(Some(EnvDir), Some(<<"env", "sub">>), None, Some(ConfigDir)),
     Environment(Some(<<"cwd", ".agent-browser", "extensions">>), Some(EnvDir),
                 Some(CurrentDir), Some(ConfigDir)),
     Environment(Some(<<"cfg", "agent-browser", "plugins">>), None, Some(CurrentDir),
                 Some(ConfigDir))}

InitDiscovery ==
    /\ ExecIdle
    /\ HelpIdle
    /\ InstallIdle
    /\ environment \in Environments
    /\ fs \in FileSystems
    /\ registry = None
    /\ origin = <<>>
    /\ lookup = None

Load ==
    /\ registry = None
    /\ \E loaded \in load(environment, fs) :
          /\ origin' = loaded
          /\ registry' = Some(ExtensionRegistry(fs, loaded))
    /\ UNCHANGED <<environment, fs, lookup, exec_vars, help_vars, install_vars>>

Find ==
    /\ is_some(registry)
    /\ lookup = None
    /\ \E name \in LookupNames :
          lookup' = Some([name |-> name, found |-> find(unwrap(registry), name)])
    /\ UNCHANGED <<environment, fs, registry, origin, exec_vars, help_vars, install_vars>>

NextDiscovery ==
    \/ Load
    \/ Find

SpecDiscovery == InitDiscovery /\ [][NextDiscovery]_vars

(***************************************************************************)
(* Installations from local directories into the plugin roots.             *)
(***************************************************************************)
MaxInstalls == 2

PackageJson(name) == Some(ValueObject([name |-> name]))

\* The directories to install from: a plugin as in the repository's test, a
\* scoped plugin without a manifest, a package that is no plugin, and (not
\* on the disk) a directory with the name of a plugin.
SourceFiles ==
    (<<"good", "package.json">> :> PackageJson(ValueString("agent-browser-plugin-example")))
        @@ (<<"good", "extension.json">> :> Some(ValueObject(<<>>)))
        @@ (<<"good", "node_modules", "dep", "extension.json">> :> Some(ValueObject(<<>>)))
        @@ (<<"scoped", "package.json">> :> PackageJson(ValueString("@s/agent-browser-plugin-x")))
        @@ (<<"scoped", "src", "index.ts">> :> None)
        @@ (<<"bad", "package.json">> :> PackageJson(ValueString("bad-plugin")))

Sources == {<<"good">>, <<"scoped">>, <<"bad">>, <<"agent-browser-plugin-gone">>, <<>>}

CustomRoot == <<"root">>

Locations == {User, Local, Custom(CustomRoot), Auto}

\* What may be in the roots already: a plugin of the name of the first
\* source, a directory of the name of the package that is no plugin.
PlacedFiles ==
    {<<"root", "agent-browser-plugin-example", "extension.json">>,
     <<"root", "bad-plugin", "extension.json">>}

\* Directories that may exist already: the custom root, the local root.
\* The disks have all or none of the files, and all or none of the directories.
PlacedDirs == {CustomRoot, <<"cwd", ".agent-browser", "plugins">>}

InstallDisks ==
    {FileSystem(UNION {Ancestors(path) : path \in DOMAIN SourceFiles \cup files}
                    \cup UNION {Prefixes(dir) : dir \in dirs},
                [path \in DOMAIN SourceFiles \cup files |->
                    IF path \in files THEN ManifestText("a") ELSE SourceFiles[path]]) :
        files \in {{}, PlacedFiles}, dirs \in {{}, PlacedDirs}}

InstallEnvironments ==
    {Environment(None, None, Some(CurrentDir), Some(ConfigDir)),
     Environment(None, None, Some(CurrentDir), None),
     Environment(None, None, None, Some(ConfigDir))}

InitInstall ==
    /\ ExecIdle
    /\ HelpIdle
    /\ environment \in InstallEnvironments
    /\ fs \in InstallDisks
    /\ registry = None
    /\ origin = <<>>
    /\ lookup = None
    /\ installs = 0
    /\ last_install = None
    /\ fs_before = fs
    /\ installed = {}

InstallCall(src, location, root, returned) ==
    [src |-> src, location |-> location, root |-> root, result |-> returned]

\* The source and root of the call, if it returned Ok.
InstalledBy(call) ==
    IF is_some(call) /\ unwrap(call).result.ok
    THEN {[src |-> unwrap(call).src, root |-> unwrap(call).root.path]}
    ELSE {}

InstallFromPathResult ==
    /\ installs < MaxInstalls
    /\ \E src \in Sources, location \in Locations :
          \E outcome \in install_from_path_result(fs, environment, src, location) :
              /\ fs' = outcome.fs
              /\ last_install' = Some(InstallCall(src, location,
                                                  resolve_plugins_root(fs, environment, location),
                                                  outcome.result))
    /\ installs' = installs + 1
    /\ fs_before' = fs
    /\ installed' = installed \cup InstalledBy(last_install)
    /\ UNCHANGED <<environment, registry, origin, lookup, exec_vars, help_vars>>

NextInstall == InstallFromPathResult

SpecInstall == InitInstall /\ [][NextInstall]_vars

(***************************************************************************)
(* What the claims speak of, read off the invocation and the manifests      *)
(* without the resolver.                                                    *)
(***************************************************************************)
Provided == SubSeq(args, 3, Len(args))

HasExtension ==
    Len(args) >= 2 /\ \E i \in 1..Len(extensions) : extensions[i].name = args[1]

TheExt ==
    extensions[CHOOSE i \in 1..Len(extensions) :
                   /\ extensions[i].name = args[1]
                   /\ \A j \in 1..(i - 1) : extensions[j].name # args[1]]

NamesCommand(commands, name) == \E i \in 1..Len(commands) : commands[i].name = name

CommandNamed(commands, name) ==
    commands[CHOOSE i \in 1..Len(commands) :
                 /\ commands[i].name = name
                 /\ \A j \in 1..(i - 1) : commands[j].name # name]

HasCommand == HasExtension /\ NamesCommand(TheExt.commands, args[2])

TheCmd == CommandNamed(TheExt.commands, args[2])

TheDefs == IF TheCmd.args = None THEN <<>> ELSE TheCmd.args[1]

TheUsage == build_usage(TheExt, TheCmd)

IsRequired(def) == def.required = None \/ def.required = Some(TRUE)

HasDefault(def) == def.default # None

IsMacro == HasCommand /\ TheCmd.handler.handler_type = "macro"

TheSteps == TheCmd.handler.steps[1]

Succeeded(outcome) == outcome.ok /\ outcome.v.success

\* The token coerces under the argument's declared type (the usage string only
\* travels in the error).
Coerces(def, token) == parse_arg_value(def, token, "").ok

Coerced(def, token) == parse_arg_value(def, token, "").v

AllCoerce(defs, provided) ==
    \A i \in 1..Len(provided) : i <= Len(defs) => Coerces(defs[i], provided[i])

AllProvidedCoerce == AllCoerce(TheDefs, Provided)

\* The first Len(provided) declared arguments are required, the rest optional.
RequiredFirst(defs, provided) ==
    /\ Len(provided) <= Len(defs)
    /\ \A i \in 1..Len(defs) : IsRequired(defs[i]) <=> i <= Len(provided)

RequiredThenOptional == RequiredFirst(TheDefs, Provided)

\* A request without its id.
WithoutId(request) ==
    IF request.t = "object"
    THEN ValueObject([k \in DOMAIN request.v \ {"id"} |-> request.v[k]])
    ELSE request

(***************************************************************************)
(* C1.  Macro fail-fast: once the response to step k of a macro has        *)
(* success = false, the requests sent are exactly those of steps 1..k in   *)
(* every state from then on (no later step, no other request), the call    *)
(* has returned, and it returned CommandFailed carrying that response.     *)
(***************************************************************************)
C1_MacroFailFast ==
    \A k \in 1..Len(received) :
        (IsMacro /\ received[k].ok /\ ~received[k].v.success)
            => /\ Len(sent) = k
               /\ Len(received) = k
               /\ pc = "done"
               /\ result = CommandFailed(received[k].v)

\* A 3-step macro whose second response reported failure.
C1_Witness ==
    /\ IsMacro
    /\ TheCmd.handler.steps # None
    /\ Len(TheSteps) = 3
    /\ Len(received) = 2
    /\ Succeeded(received[1])
    /\ received[2].ok /\ ~received[2].v.success
    /\ result.kind = "CommandFailed"

(***************************************************************************)
(* C2.  A macro of M >= 1 steps: the k-th request sent is the k-th step    *)
(* template, interpolated; a request is sent only when every earlier one   *)
(* has been answered with success = true; and the call returns Ok exactly   *)
(* when all M steps have been answered with success = true, with M         *)
(* requests sent and the response to step M as its value.                  *)
(***************************************************************************)
C2_MacroAllSucceed ==
    (IsMacro /\ is_some(resolved) /\ TheCmd.handler.steps # None /\ Len(TheSteps) >= 1)
        => /\ Len(sent) <= Len(TheSteps)
           /\ Len(received) <= Len(sent)
           /\ Len(sent) <= Len(received) + 1
           /\ \A k \in 1..Len(sent) :
                 WithoutId(sent[k])
                     = WithoutId(interpolate_value(TheSteps[k], arg_values, arg_order))
           /\ \A k \in 1..(Len(sent) - 1) : Succeeded(received[k])
           /\ (Len(received) = Len(TheSteps) /\ \A k \in 1..Len(received) : Succeeded(received[k]))
                 => /\ pc = "done"
                    /\ Len(sent) = Len(TheSteps)
                    /\ result = OkSome(received[Len(TheSteps)].v)
           /\ result.kind = "OkSome"
                 => /\ Len(received) = Len(TheSteps)
                    /\ \A k \in 1..Len(received) : Succeeded(received[k])

\* A 3-step macro that ran to its end, the last response differing from the first.
C2_Witness ==
    /\ IsMacro
    /\ TheCmd.handler.steps # None
    /\ Len(TheSteps) = 3
    /\ Len(sent) = 3
    /\ result.kind = "OkSome"
    /\ received[3].v # received[1].v

(***************************************************************************)
(* C3.  A daemon command: once dispatched, exactly one request has been    *)
(* sent, the envelope {id, action: "extension", extension, command, args}  *)
(* with a generated string id, the names of the invocation and the bound   *)
(* argument map; the call's result is the transport's outcome: the         *)
(* response itself when success = true, CommandFailed carrying it when     *)
(* success = false, Io carrying the message when the transport failed.     *)
(***************************************************************************)
C3_DaemonSingleRequest ==
    (HasCommand /\ TheCmd.handler.handler_type = "daemon" /\ pc \in {"await", "done"}
        /\ is_some(resolved))
        => /\ Len(sent) = 1
           /\ sent[1].t = "object"
           /\ DOMAIN sent[1].v = {"id", "action", "extension", "command", "args"}
           /\ sent[1].v["id"].t = "string"
           /\ sent[1].v["action"] = ValueString("extension")
           /\ sent[1].v["extension"] = ValueString(args[1])
           /\ sent[1].v["command"] = ValueString(args[2])
           /\ sent[1].v["args"] = ValueObject(arg_values)
           /\ pc = "await" => received = <<>> /\ result = Pending
           /\ pc = "done"
                 => /\ Len(received) = 1
                    /\ result = (IF ~received[1].ok THEN Io(received[1].v)
                                 ELSE IF received[1].v.success THEN OkSome(received[1].v)
                                 ELSE CommandFailed(received[1].v))

\* The end-to-end example: myext example.hello .. answered with success.
C3_Witness ==
    /\ Len(args) = 3
    /\ args[1] = "myext" /\ args[2] = "example.hello"
    /\ pc = "done"
    /\ result.kind = "OkSome"
    /\ sent[1].v["args"] = ValueObject([selector |-> ValueString(args[3])])

(***************************************************************************)
(* C4.  Positional binding.                                                *)
(***************************************************************************)
\* The declared argument i yields a value: its token, or else its default.
Yields(defs, provided, i) == i <= Len(provided) \/ HasDefault(defs[i])

ValueOf(defs, provided, i) ==
    IF i <= Len(provided) THEN Coerced(defs[i], provided[i]) ELSE defs[i].default[1]

\* Each argument that yields a value is bound to it; the others have no entry.
BoundEach(defs, provided, values) ==
    \A i \in 1..Len(defs) :
        IF Yields(defs, provided, i)
        THEN /\ defs[i].name \in DOMAIN values
             /\ values[defs[i].name] = ValueOf(defs, provided, i)
        ELSE defs[i].name \notin DOMAIN values

\* The entries are the names of the arguments that yield a value, each bound
\* to the value of the last declared argument of that name that yields one.
BoundLast(defs, provided, values) ==
    /\ DOMAIN values = {defs[i].name : i \in {j \in 1..Len(defs) : Yields(defs, provided, j)}}
    /\ \A i \in 1..Len(defs) :
          (Yields(defs, provided, i)
              /\ \A j \in (i + 1)..Len(defs) :
                    ~(Yields(defs, provided, j) /\ defs[j].name = defs[i].name))
              => values[defs[i].name] = ValueOf(defs, provided, i)

\* C4 as stated: with the first K arguments required and the rest optional,
\* K tokens always resolve, each of the first K names is bound to its coerced
\* token, each unsupplied argument with a default to that default, and an
\* unsupplied optional argument without default has no entry.
C4_Original ==
    (pc # "start" /\ HasCommand /\ RequiredThenOptional)
        => /\ is_some(resolved)
           /\ BoundEach(TheDefs, Provided, arg_values)

\* C4 amended: with the first K arguments required and the rest optional, K
\* tokens that each coerce under their argument's declared type resolve; the
\* bound map has an entry exactly for the names of the arguments that yield a
\* value (a token, or else a default), and each such name is bound to the
\* value of the last declared argument of that name that yields one.
C4_PositionalBinding ==
    (pc # "start" /\ HasCommand /\ RequiredThenOptional /\ AllProvidedCoerce)
        => /\ is_some(resolved)
           /\ BoundLast(TheDefs, Provided, arg_values)

\* example.fill with its one required token: count takes its default, flag is absent.
C4_Witness ==
    /\ is_some(resolved)
    /\ args[2] = "example.fill"
    /\ Len(Provided) = 1
    /\ DOMAIN arg_values = {"selector", "count"}
    /\ arg_values["count"] = ValueInt(1)

(***************************************************************************)
(* C5.  More positional tokens than the matched command declares           *)
(* arguments: the call returns InvalidInvocation ("Too many arguments"),   *)
(* never InvalidValue, whatever the tokens are.                            *)
(***************************************************************************)
C5_TooManyArguments ==
    (pc = "done" /\ HasCommand /\ Len(Provided) > Len(TheDefs))
        => /\ result.kind = "InvalidInvocation"
           /\ result.message = "Too many arguments"

\* Too many tokens, one of which does not coerce under its argument's type.
C5_Witness ==
    /\ pc = "done"
    /\ HasCommand
    /\ Len(Provided) > Len(TheDefs)
    /\ ~AllProvidedCoerce
    /\ result.kind = "InvalidInvocation"

(***************************************************************************)
(* C6.  Type coercion is total and rejecting.                              *)
(***************************************************************************)
\* The integers whose decimal texts the invocations tried can hold.
SmallInts == -99..99

\* The token is the text of a (64-bit) signed integer.
IsSignedInteger(token) ==
    \E n \in SmallInts : token = ToString(n) \/ (n >= 0 /\ token = "+" \o ToString(n))

IntegerOf(token) ==
    CHOOSE n \in SmallInts : token = ToString(n) \/ (n >= 0 /\ token = "+" \o ToString(n))

NumeralChars == "0123456789+-.eE"

\* The token is numeric: made of the characters of a decimal numeral, with a digit.
IsNumeric(token) ==
    /\ \A i \in 1..Len(token) : \E j \in 1..Len(NumeralChars) : Char(token, i) = Char(NumeralChars, j)
    /\ \E i \in 1..Len(token) : is_digit(Char(token, i))

TypeOf(def) == IF def.arg_type = None THEN "string" ELSE def.arg_type[1]

\* What the claim has the coercion accept.
Accepts(def, token) ==
    CASE TypeOf(def) = "int"    -> IsSignedInteger(token)
      [] TypeOf(def) = "number" -> IsNumeric(token)
      [] TypeOf(def) = "bool"   -> token \in {"true", "false"}
      [] OTHER                  -> TRUE

\* The first token its type does not accept, if any, is reported as invalid.
FirstRejected(defs, provided, usage, outcome) ==
    \A i \in 1..Len(provided) :
        (~Accepts(defs[i], provided[i]) /\ \A j \in 1..(i - 1) : Accepts(defs[j], provided[j]))
            => outcome = InvalidValue("Invalid " \o TypeOf(defs[i]) \o " for " \o defs[i].name,
                                      usage)

AllAccepted(defs, provided) == \A i \in 1..Len(provided) : Accepts(defs[i], provided[i])

\* Each token is coerced to the value the claim gives for its type.
CoercedAsStated(defs, provided) ==
    \A i \in 1..Len(provided) :
        CASE TypeOf(defs[i]) = "int" ->
                 Coerced(defs[i], provided[i]) = ValueInt(IntegerOf(provided[i]))
          [] TypeOf(defs[i]) = "bool" ->
                 Coerced(defs[i], provided[i]) = ValueBool(provided[i] = "true")
          [] TypeOf(defs[i]) = "number" -> TRUE
          [] OTHER -> Coerced(defs[i], provided[i]) = ValueString(provided[i])

\* C6 as stated: the first provided token its type does not accept (not a
\* signed integer for int, neither "true" nor "false" for bool, not numeric for
\* number) makes the call return InvalidValue naming the argument; when every
\* token is accepted the invocation resolves, an int token bound to that
\* integer, a bool token to that boolean, and a token of an absent or
\* unrecognized type to itself as a string.
C6_Original ==
    (pc # "start" /\ HasCommand /\ Len(Provided) <= Len(TheDefs))
        => /\ FirstRejected(TheDefs, Provided, TheUsage, result)
           /\ AllAccepted(TheDefs, Provided)
                 => /\ result.kind # "InvalidValue"
                    /\ CoercedAsStated(TheDefs, Provided)

(***************************************************************************)
(* C7.  Missing argument.                                                  *)
(***************************************************************************)
\* No token is supplied for argument i, which is required and has no default.
Missing(defs, provided, i) ==
    i > Len(provided) /\ IsRequired(defs[i]) /\ ~HasDefault(defs[i])

\* Every missing argument is reported.
EachMissingReported(defs, provided, usage, outcome) ==
    \A i \in 1..Len(defs) :
        Missing(defs, provided, i)
            => outcome = InvalidInvocation("Missing argument: " \o defs[i].name, usage)

\* The first missing argument, if any, is reported.
FirstMissingReported(defs, provided, usage, outcome) ==
    \A i \in 1..Len(defs) :
        (Missing(defs, provided, i) /\ \A j \in 1..(i - 1) : ~Missing(defs, provided, j))
            => outcome = InvalidInvocation("Missing argument: " \o defs[i].name, usage)

\* C7 as stated: for every declared argument that is required, has no default
\* and is given no token, the call returns InvalidInvocation with the message
\* "Missing argument: <its name>" and the command's usage.
C7_Original ==
    (pc = "done" /\ HasCommand)
        => EachMissingReported(TheDefs, Provided, TheUsage, result)

\* C7 amended: when every supplied token coerces under its argument's type,
\* the call returns InvalidInvocation with the message "Missing argument:
\* <name>" for the first declared argument that is required, has no default
\* and is given no token, and with the command's usage; myext example.hello
\* without arguments gives "Missing argument: selector" and the usage
\* "agent-browser myext example.hello <selector>".
C7_MissingArgument ==
    /\ (pc = "done" /\ HasCommand /\ Len(Provided) <= Len(TheDefs) /\ AllProvidedCoerce)
          => FirstMissingReported(TheDefs, Provided, TheUsage, result)
    /\ (pc = "done" /\ args = <<"myext", "example.hello">>)
          => result = InvalidInvocation("Missing argument: selector",
                                        "agent-browser myext example.hello <selector>")

\* example.hello invoked without its selector.
C7_Witness ==
    /\ pc = "done"
    /\ args = <<"myext", "example.hello">>
    /\ result.kind = "InvalidInvocation"

(***************************************************************************)
(* C8.  The call returns Ok(None) exactly when fewer than 2 tokens are     *)
(* given or token 0 names no extension of the registry, and then nothing   *)
(* was sent to the daemon.                                                 *)
(***************************************************************************)
C8_NotAnExtensionInvocation ==
    pc = "done"
        => /\ (result = OkNone) <=> (Len(args) < 2 \/ ~HasExtension)
           /\ result = OkNone => sent = <<>> /\ received = <<>>

\* Two tokens or more, the first naming no extension.
C8_Witness ==
    /\ pc = "done"
    /\ Len(args) >= 2
    /\ ~HasExtension
    /\ result = OkNone

(***************************************************************************)
(* C9.  Token 0 names an extension and token 1 equals none of its command  *)
(* names: the call returns InvalidInvocation with the message "Unknown     *)
(* subcommand: <token 1>" and the usage "agent-browser <extension>         *)
(* <command> [args]", and nothing was sent.                                *)
(***************************************************************************)
C9_UnknownSubcommand ==
    (pc = "done" /\ HasExtension /\ ~HasCommand)
        => /\ result = InvalidInvocation("Unknown subcommand: " \o args[2],
                                         "agent-browser " \o args[1] \o " <command> [args]")
           /\ sent = <<>>

\* "example" is the dotted namespace of several commands and the name of none.
C9_Witness ==
    /\ pc = "done"
    /\ Len(args) >= 2
    /\ args[1] = "myext" /\ args[2] = "example"
    /\ result.kind = "InvalidInvocation"

LacksAction(value) == value.t # "object" \/ "action" \notin DOMAIN value.v

\* The first step whose interpolated value lacks an action; 0 when none does.
FirstWithoutAction(steps, values, order) ==
    IF \E k \in 1..Len(steps) : LacksAction(interpolate_value(steps[k], values, order))
    THEN CHOOSE k \in 1..Len(steps) :
             /\ LacksAction(interpolate_value(steps[k], values, order))
             /\ \A j \in 1..(k - 1) : ~LacksAction(interpolate_value(steps[j], values, order))
    ELSE 0

\* Step k is never sent; once steps 1..k-1 are answered with success the call
\* has failed with the missing-action error, and only then does it so fail.
StopsAtStep(k, usage) ==
    /\ k > 0
          => /\ Len(sent) < k
             /\ (Len(received) = k - 1 /\ \A j \in 1..(k - 1) : Succeeded(received[j]))
                   => /\ pc = "done"
                      /\ Len(sent) = k - 1
                      /\ result = InvalidInvocation("Macro step missing action field", usage)
    /\ (result.kind = "InvalidInvocation" /\ result.message = "Macro step missing action field")
          => /\ k > 0
             /\ Len(sent) = k - 1
             /\ Len(received) = k - 1

\* C11: in a macro whose step k is the first whose interpolated value is not
\* a JSON object with an action field (an object without it, or no object at
\* all), step k and the later steps are never sent; the steps 1..k-1 are sent
\* first, and once they are answered with success the call returns
\* InvalidInvocation ("Macro step missing action field") with the usage.
C11_MacroStepMissingAction ==
    (IsMacro /\ is_some(resolved) /\ TheCmd.handler.steps # None)
        => StopsAtStep(FirstWithoutAction(TheSteps, arg_values, arg_order), TheUsage)

\* tools bare <token>: the second template "{{what}}" became a string, after
\* the first step was sent and answered.
C11_Witness ==
    /\ pc = "done"
    /\ Len(args) = 3
    /\ args[1] = "tools" /\ args[2] = "bare"
    /\ Len(sent) = 1
    /\ Len(received) = 1
    /\ result.kind = "InvalidInvocation"
    /\ result.message = "Macro step missing action field"

(***************************************************************************)
(* C12.  Transport failure.                                                *)
(***************************************************************************)
\* The most requests a dispatch of the command can send: one per step of a
\* macro, one for a daemon command, none otherwise.
MaxRequests(command) ==
    CASE command.handler.handler_type = "macro" ->
             IF command.handler.steps = None THEN 0 ELSE Len(command.handler.steps[1])
      [] command.handler.handler_type = "daemon" -> 1
      [] OTHER -> 0

\* C12: when the transport fails for a request (macro step k or the daemon
\* envelope), the call has returned Io carrying the transport's message and
\* that request is the last one sent: no later step goes out and the request
\* is not sent again.  In every state each request was handed to the
\* transport once: the requests sent are pairwise different, at most one of
\* them is unanswered, and there are no more of them than the command has
\* steps (one for a daemon command).
C12_IoNoRetry ==
    /\ \A k \in 1..Len(received) :
          ~received[k].ok
              => /\ Len(received) = k
                 /\ Len(sent) = k
                 /\ pc = "done"
                 /\ result = Io(received[k].v)
    /\ Len(received) <= Len(sent)
    /\ Len(sent) <= Len(received) + 1
    /\ \A i, j \in 1..Len(sent) : i # j => sent[i] # sent[j]
    /\ sent # <<>> => HasCommand /\ Len(sent) <= MaxRequests(TheCmd)

\* The transport failed for the second step of a 3-step macro.
C12_Witness ==
    /\ IsMacro
    /\ TheCmd.handler.steps # None
    /\ Len(TheSteps) = 3
    /\ Len(received) = 2
    /\ Succeeded(received[1])
    /\ ~received[2].ok
    /\ result = Io("connection refused")

(***************************************************************************)
(* C13.  Unsupported handler type.                                         *)
(***************************************************************************)
\* The tokens bind: not too many, each coerces, no argument is missing.
Binds(defs, provided) ==
    /\ Len(provided) <= Len(defs)
    /\ AllCoerce(defs, provided)
    /\ \A i \in 1..Len(defs) : ~Missing(defs, provided, i)

\* What a command of handler type `other` does with these tokens.
RejectedAtDispatch(other, binds, usage) ==
    /\ sent = <<>>
    /\ (pc # "start" /\ binds) => is_some(resolved)
    /\ (pc = "done" /\ binds)
          => result = InvalidInvocation("Unsupported handler type: " \o other, usage)
    /\ (pc = "done" /\ ~binds)
          => /\ result.kind \in {"InvalidInvocation", "InvalidValue"}
             /\ result.message # "Unsupported handler type: " \o other

\* C13: a command of the registry whose handler type is neither "macro" nor
\* "daemon" resolves like any other (its tokens are bound, and a binding
\* error is reported as such); once its arguments are bound the call returns
\* InvalidInvocation with the message "Unsupported handler type: <type>" and
\* the command's usage; no request is ever sent for it.
C13_UnsupportedHandler ==
    (HasCommand /\ TheCmd.handler.handler_type \notin {"macro", "daemon"})
        => RejectedAtDispatch(TheCmd.handler.handler_type, Binds(TheDefs, Provided), TheUsage)

\* tools wasm.run 42: the token is bound, then the handler type is refused.
C13_Witness ==
    /\ pc = "done"
    /\ args = <<"tools", "wasm.run", "42">>
    /\ is_some(resolved)
    /\ arg_values = [level |-> ValueInt(42)]
    /\ result.kind = "InvalidInvocation"
    /\ result.message = "Unsupported handler type: wasm"

(***************************************************************************)
(* C14.  Interpolation type preservation.                                  *)
(***************************************************************************)
\* The string is exactly one placeholder whose key the map binds.
IsBoundPlaceholder(s, values) == \E key \in DOMAIN values : s = "{{" \o key \o "}}"

BoundKey(s, values) == CHOOSE key \in DOMAIN values : s = "{{" \o key \o "}}"

\* rendered is template with each exact bound placeholder, at any depth,
\* replaced by the bound value itself, arrays and objects keeping their shape
\* and the scalars that are no strings kept as they are.
RECURSIVE Preserves(_, _, _)
Preserves(template, rendered, values) ==
    CASE template.t = "string" ->
             IsBoundPlaceholder(template.v, values)
                 => rendered = values[BoundKey(template.v, values)]
      [] template.t = "array" ->
             /\ rendered.t = "array"
             /\ Len(rendered.v) = Len(template.v)
             /\ \A i \in 1..Len(template.v) : Preserves(template.v[i], rendered.v[i], values)
      [] template.t = "object" ->
             /\ rendered.t = "object"
             /\ DOMAIN rendered.v = DOMAIN template.v
             /\ \A k \in DOMAIN template.v : Preserves(template.v[k], rendered.v[k], values)
      [] OTHER -> rendered = template

\* The request sent for a template, with or without the id it was given on
\* its way out.
PreservedInRequest(template, request, values) ==
    \/ Preserves(template, request, values)
    \/ Preserves(template, WithoutId(request), values)

PreservesAll(steps, values, order) ==
    /\ \A k \in 1..Len(steps) :
          Preserves(steps[k], interpolate_value(steps[k], values, order), values)
    /\ \A k \in 1..Len(sent) : PreservedInRequest(steps[k], sent[k], values)

\* C14: for every step template of a resolved macro and the bound argument
\* map, interpolation replaces a string leaf that is exactly "{{key}}" with
\* key bound by the bound value itself, its JSON type kept (the integer 7
\* stays the integer 7), at any depth inside arrays and objects, and leaves
\* the scalars that are no strings as they are; the requests sent carry
\* these values.
C14_TypePreservation ==
    (IsMacro /\ is_some(resolved) /\ TheCmd.handler.steps # None)
        => PreservesAll(TheSteps, arg_values, arg_order)

\* tools partial 1.5: "{{count}}" inside an array became the integer 7 and
\* "{{x}}" inside an object inside that array became a float.
C14_Witness ==
    /\ args = <<"tools", "partial", "1.5">>
    /\ Len(sent) = 1
    /\ sent[1].v["items"].v[1] = ValueInt(7)
    /\ sent[1].v["items"].v[2] = ValueInt(7)
    /\ sent[1].v["items"].v[3].v["deep"].t = "float"
    /\ sent[1].v["items"].v[3].v["keep"] = ValueBool(TRUE)

(***************************************************************************)
(* C15.  Textual interpolation.                                            *)
(***************************************************************************)
\* An argument's text: the string itself, the JSON rendering of anything else.
TextOf(value) == IF value.t = "string" THEN value.v ELSE value_to_string(value)

\* The placeholder of key stands in s at position i.
PlaceholderAt(s, key, i) ==
    /\ i + Len(key) + 3 <= Len(s)
    /\ SubSeq(s, i, i + Len(key) + 3) = "{{" \o key \o "}}"

\* s from position i on, each placeholder of a bound key that stands in s
\* replaced by the argument's text, everything else kept.
RECURSIVE SubstituteFrom(_, _, _)
SubstituteFrom(s, values, i) ==
    IF i > Len(s) THEN ""
    ELSE IF \E key \in DOMAIN values : PlaceholderAt(s, key, i)
    THEN TextOf(values[CHOOSE key \in DOMAIN values : PlaceholderAt(s, key, i)])
             \o SubstituteFrom(s, values,
                     i + Len(CHOOSE key \in DOMAIN values : PlaceholderAt(s, key, i)) + 4)
    ELSE SubSeq(s, i, i) \o SubstituteFrom(s, values, i + 1)

\* The strings of a template, at any depth.
RECURSIVE StringLeaves(_)
StringLeaves(value) ==
    CASE value.t = "string" -> {value.v}
      [] value.t = "array"  -> UNION {StringLeaves(value.v[i]) : i \in 1..Len(value.v)}
      [] value.t = "object" -> UNION {StringLeaves(value.v[k]) : k \in DOMAIN value.v}
      [] OTHER -> {}

AllSubstituted(steps, values, order) ==
    \A k \in 1..Len(steps) :
        \A s \in StringLeaves(steps[k]) :
            ~IsBoundPlaceholder(s, values)
                => interpolate_string(s, values, order) = ValueString(SubstituteFrom(s, values, 1))

\* C15 as stated: for every string of a step template of a resolved macro
\* that is not one exact bound placeholder, interpolate_string returns the
\* string in which every occurrence of "{{key}}" with key bound is replaced
\* by that argument's text and everything else, the placeholders of unbound
\* keys included, is left in place.
C15_Original ==
    (IsMacro /\ is_some(resolved) /\ TheCmd.handler.steps # None)
        => AllSubstituted(TheSteps, arg_values, arg_order)

(***************************************************************************)
(* C17.  Defaults.                                                         *)
(***************************************************************************)
\* Slot i is the last declared argument of its name that yields a value.
WritesLast(defs, provided, i) ==
    /\ Yields(defs, provided, i)
    /\ \A j \in (i + 1)..Len(defs) :
          ~(Yields(defs, provided, j) /\ defs[j].name = defs[i].name)

\* A supplied token is what its slot binds, never the default.
TokenOverDefault(defs, provided, values) ==
    \A i \in 1..Len(provided) :
        WritesLast(defs, provided, i) => values[defs[i].name] = Coerced(defs[i], provided[i])

\* No default is bound for a slot that is declared required: true.
NoDefaultWhenRequired(defs, provided, values) ==
    \A i \in (Len(provided) + 1)..Len(defs) :
        (WritesLast(defs, provided, i) /\ defs[i].required = Some(TRUE))
            => ~(defs[i].name \in DOMAIN values /\ values[defs[i].name] = defs[i].default[1])

\* An unsupplied slot that declares a default binds it.
DefaultWhenUnsupplied(defs, provided, values) ==
    \A i \in (Len(provided) + 1)..Len(defs) :
        WritesLast(defs, provided, i)
            => /\ defs[i].name \in DOMAIN values
               /\ values[defs[i].name] = defs[i].default[1]

\* C17 as stated: in a resolved invocation a supplied token is what its slot
\* binds, and the default of an unsupplied slot is bound only if the slot's
\* required flag is false or omitted.
C17_Original ==
    is_some(resolved)
        => /\ TokenOverDefault(TheDefs, Provided, arg_values)
           /\ NoDefaultWhenRequired(TheDefs, Provided, arg_values)

\* C17 amended: tokens that bind (not too many, each coercing, no argument
\* without default missing) always resolve; a slot with a supplied token
\* binds the coerced token, never its default, and a slot without a token
\* that declares a default binds the default whatever its required flag is
\* (such an argument is never missing).
C17_DefaultBinding ==
    (pc # "start" /\ HasCommand /\ Binds(TheDefs, Provided))
        => /\ is_some(resolved)
           /\ TokenOverDefault(TheDefs, Provided, arg_values)
           /\ DefaultWhenUnsupplied(TheDefs, Provided, arg_values)

\* tools wasm.run without tokens: level is required: true and has the default
\* 3, which is bound.
C17_Witness ==
    /\ args = <<"tools", "wasm.run">>
    /\ is_some(resolved)
    /\ arg_values = [level |-> ValueInt(3)]

(***************************************************************************)
(* C18.  Usage string.                                                     *)
(***************************************************************************)
\* An argument as the usage shows it.
Bracketed(def) ==
    IF IsRequired(def) THEN "<" \o def.name \o ">" ELSE "[" \o def.name \o "]"

\* The usage of the first n declared arguments.
RECURSIVE UsageUpTo(_, _)
UsageUpTo(defs, n) ==
    IF n = 0 THEN "" ELSE UsageUpTo(defs, n - 1) \o " " \o Bracketed(defs[n])

ExpectedUsage(extension, command, defs) ==
    "agent-browser " \o extension \o " " \o command \o UsageUpTo(defs, Len(defs))

\* C18: for the matched command, build_usage is "agent-browser <extension>
\* <command>" followed, per declared argument in declaration order, by
\* " <name>" when it is required (required absent counting as true) and
\* " [name]" when required is false; and every InvalidInvocation or
\* InvalidValue the call returns once the command is matched (too many
\* arguments, missing argument, invalid value, missing steps, missing action,
\* unsupported handler) carries this string as its usage, e.g.
\* "agent-browser myext example.fill <selector> [count] [flag]".
C18_Usage ==
    (pc # "start" /\ HasCommand)
        => /\ build_usage(TheExt, TheCmd) = ExpectedUsage(args[1], args[2], TheDefs)
           /\ result.kind \in {"InvalidInvocation", "InvalidValue"}
                 => result.usage = ExpectedUsage(args[1], args[2], TheDefs)
           /\ args[2] = "example.fill"
                 => build_usage(TheExt, TheCmd)
                        = "agent-browser myext example.fill <selector> [count] [flag]"

\* myext example.fill <selector> nan: the invalid count is reported with the
\* usage of example.fill.
C18_Witness ==
    /\ pc = "done"
    /\ Len(args) = 4
    /\ args[1] = "myext" /\ args[2] = "example.fill"
    /\ result.kind = "InvalidValue"
    /\ result.usage = "agent-browser myext example.fill <selector> [count] [flag]"

(***************************************************************************)
(* C19.  print_extension_help.                                             *)
(***************************************************************************)
\* Some command of the list is named prefix, or has a name that goes on
\* after prefix with a dot.
MatchesPrefix(commands, prefix) ==
    \E i \in 1..Len(commands) :
        \/ commands[i].name = prefix
        \/ /\ Len(commands[i].name) > Len(prefix)
           /\ SubSeq(commands[i].name, 1, Len(prefix) + 1) = prefix \o "."

\* The commands of the first extension of the registry named name.
CommandsOf(manifests, name) ==
    manifests[CHOOSE i \in 1..Len(manifests) :
                 /\ manifests[i].name = name
                 /\ \A j \in 1..(i - 1) : manifests[j].name # name].commands

HelpExpected(manifests, name, prefix) ==
    /\ \E i \in 1..Len(manifests) : manifests[i].name = name
    /\ \/ prefix = None
       \/ prefix = Some("")
       \/ MatchesPrefix(CommandsOf(manifests, name), prefix[1])

\* C19: print_extension_help(manifests, name, prefix) returns true exactly
\* when name is an extension of the manifests and the prefix is absent or
\* empty, or equals a command name, or is followed by a dot in a command
\* name; it returns false for an unknown extension and for a prefix that
\* matches in neither way, such as "exam", a leading part of "example.hello"
\* that does not end at the dot.  It prints nothing when it returns false.
C19_HelpFound ==
    help_returned # None
        => /\ help_returned[1] <=> HelpExpected(extensions, help_name, help_prefix)
           /\ (help_name = "myext" /\ help_prefix = Some("exam")) => help_returned = Some(FALSE)
           /\ help_returned = Some(FALSE) => stdout = <<>>

\* myext with the prefix "example", the namespace of four commands and the
\* name of none: the four are listed.
C19_Witness ==
    /\ help_name = "myext"
    /\ help_prefix = Some("example")
    /\ help_returned = Some(TRUE)
    /\ stdout = <<"Usage: agent-browser myext <command> [args]", "", "Commands:",
                  "  example.hello", "  example.fill", "  example.sum", "  example.dup">>

(***************************************************************************)
(* C16                                                                     *)
(***************************************************************************)
\* A root of the fixed order: its directory, and whether all of it is
\* scanned or only its node_modules.
Root(dir, whole) == [dir |-> dir, whole |-> whole]

OverrideRoot(dir) == IF is_some(dir) /\ unwrap(dir) # <<>> THEN <<Root(unwrap(dir), TRUE)>> ELSE <<>>

\* The roots in the fixed order: primary override, secondary override, cwd
\* plugins, cwd extensions, user-config plugins, user-config extensions,
\* cwd node_modules.
RootsInOrder(e) ==
    OverrideRoot(e.plugins_dir)
        \o OverrideRoot(e.extensions_dir)
        \o (IF is_some(e.current_dir)
            THEN <<Root(unwrap(e.current_dir) \o <<".agent-browser", "plugins">>, TRUE),
                   Root(unwrap(e.current_dir) \o <<".agent-browser", "extensions">>, TRUE)>>
            ELSE <<>>)
        \o (IF is_some(e.config_dir)
            THEN <<Root(unwrap(e.config_dir) \o <<"agent-browser", "plugins">>, TRUE),
                   Root(unwrap(e.config_dir) \o <<"agent-browser", "extensions">>, TRUE)>>
            ELSE <<>>)
        \o (IF is_some(e.current_dir) THEN <<Root(unwrap(e.current_dir), FALSE)>> ELSE <<>>)

Beneath(dir, path) == Len(path) > Len(dir) /\ SubSeq(path, 1, Len(dir)) = dir

\* path is the manifest of a module of dir's node_modules, unscoped or scoped.
ModuleManifest(dir, path) ==
    /\ Beneath(dir \o <<"node_modules">>, path)
    /\ path[Len(path)] = "extension.json"
    /\ \/ /\ Len(path) = Len(dir) + 3
          /\ ~starts_with(path[Len(dir) + 2], "@")
          /\ is_plugin_package_name(path[Len(dir) + 2])
       \/ /\ Len(path) = Len(dir) + 4
          /\ starts_with(path[Len(dir) + 2], "@")
          /\ is_plugin_package_name(path[Len(dir) + 2] \o "/" \o path[Len(dir) + 3])

\* path is a manifest file that the scan of root looks at.
InRoot(root, path) ==
    \/ ModuleManifest(root.dir, path)
    \/ /\ root.whole
       /\ Beneath(root.dir, path)
       /\ path[Len(path)] = "extension.json"
       /\ Len(path) \in {Len(root.dir) + 1, Len(root.dir) + 2}

\* The files of root on this disk that hold a valid manifest named name.
NamedIn(disk, root, name) ==
    {path \in DOMAIN disk.files :
        /\ InRoot(root, path)
        /\ is_some(load_manifest(disk, path))
        /\ unwrap(load_manifest(disk, path)).name = name}

Least(numbers) == CHOOSE n \in numbers : \A m \in numbers : n <= m

Precedence(disk, roots, manifests, files, name, found) ==
    LET holding == {k \in 1..Len(roots) : NamedIn(disk, roots[k], name) # {}}
    IN  /\ holding = {} => found = None
        /\ holding # {} =>
              /\ is_some(found)
              /\ manifests[unwrap(found)].name = name
              /\ \A j \in 1..(unwrap(found) - 1) : manifests[j].name # name
              /\ files[unwrap(found)] \in NamedIn(disk, roots[Least(holding)], name)
        /\ \A k \in holding : \A path \in NamedIn(disk, roots[k], name) :
              \E i \in 1..Len(manifests) : files[i] = path /\ manifests[i].name = name

\* C16: find(name) returns the first manifest of the list named name, which
\* was read from the first root of the fixed order (primary override,
\* secondary override, cwd plugins, cwd extensions, user-config plugins,
\* user-config extensions, cwd node_modules) that holds a manifest of that
\* name; the manifests of that name in later roots are in list() all the same.
C16_DiscoveryPrecedence ==
    is_some(lookup) =>
        Precedence(fs, RootsInOrder(environment), list(unwrap(registry)), origin,
                   unwrap(lookup).name, unwrap(lookup).found)

\* The name is in the primary override root and in a user-config root, and
\* find has returned the former.
C16_Witness ==
    /\ is_some(lookup)
    /\ unwrap(lookup).found = Some(1)
    /\ origin[1] = <<"env", "extension.json">>
    /\ \E j \in 2..Len(origin) :
          /\ origin[j][1] = "cfg"
          /\ unwrap(registry)[j].name = unwrap(lookup).name

(***************************************************************************)
(* C20                                                                     *)
(***************************************************************************)
\* Everything on the disk before is on the disk after, files with the
\* content they had.
Kept(before, after) ==
    /\ before.dirs \subseteq after.dirs
    /\ \A path \in DOMAIN before.files :
          path \in DOMAIN after.files /\ after.files[path] = before.files[path]

\* The call was given a root and a source that has a package name.
Named(before, call) == call.root.ok /\ is_some(package_name(before, call.src))

NameOf(before, call) == unwrap(package_name(before, call.src))

TargetOf(before, call) == call.root.path \o <<sanitize_plugin_dir(NameOf(before, call))>>

Refused(before, after, call, message) ==
    /\ ~call.result.ok
    /\ call.result.error = message
    /\ after = before

NeverOverwrites(before, after, call, earlier) ==
    /\ Kept(before, after)
    /\ Named(before, call) =>
          /\ ~commands_is_plugin_package_name(NameOf(before, call)) =>
                Refused(before, after, call, NoPluginPackage)
          /\ /\ commands_is_plugin_package_name(NameOf(before, call))
             /\ TargetOf(before, call) \in before.dirs \cup DOMAIN before.files
             => Refused(before, after, call, "Plugin already exists")
    /\ [src |-> call.src, root |-> call.root.path] \in earlier =>
          Refused(before, after, call, "Plugin already exists")

\* C20: a call of install_from_path_result leaves everything that was on the
\* disk as it was; with a root and a package name, it returns "Plugin already
\* exists" and changes nothing when the target directory (root joined with
\* the sanitized package name) exists, and returns "No plugin package
\* found..." and changes nothing when the name does not satisfy the
\* plugin-name predicate; a source installed into a root with success is
\* refused with "Plugin already exists" when installed into it again.
C20_NeverOverwrites ==
    is_some(last_install) =>
        NeverOverwrites(fs_before, fs, unwrap(last_install), installed)

\* The plugin of the repository's test was installed into the custom root
\* and the second installation of it there has been refused.
C20_Witness ==
    /\ is_some(last_install)
    /\ unwrap(last_install).src = <<"good">>
    /\ [src |-> <<"good">>, root |-> CustomRoot] \in installed
    /\ unwrap(last_install).root.path = CustomRoot
    /\ unwrap(last_install).result.error = "Plugin already exists"
    /\ is_file(fs, <<"root", "agent-browser-plugin-example", "package.json">>)
    /\ fs = fs_before

(***************************************************************************)
(* C21                                                                     *)
(***************************************************************************)
ValidManifest(disk, path) == path \in DOMAIN disk.files /\ is_some(load_manifest(disk, path))

\* (a) the manifest directly inside the root
DirectOf(disk, root) ==
    {path \in DOMAIN disk.files :
        root.whole /\ path = root.dir \o <<"extension.json">> /\ ValidManifest(disk, path)}

\* (b) the manifests of the scoped modules of the root's node_modules
ScopedOf(disk, root) ==
    {path \in DOMAIN disk.files :
        /\ ModuleManifest(root.dir, path)
        /\ Len(path) = Len(root.dir) + 4
        /\ ValidManifest(disk, path)}

\* (c) the manifests of its unscoped modules with a plugin name
UnscopedOf(disk, root) ==
    {path \in DOMAIN disk.files :
        /\ ModuleManifest(root.dir, path)
        /\ Len(path) = Len(root.dir) + 3
        /\ ValidManifest(disk, path)}

\* (d) the manifests of the root's immediate subdirectories
SubdirsOf(disk, root) ==
    {path \in DOMAIN disk.files :
        /\ root.whole
        /\ Beneath(root.dir, path)
        /\ Len(path) = Len(root.dir) + 2
        /\ path[Len(path)] = "extension.json"
        /\ ValidManifest(disk, path)}

\* The sequences in which one root's manifests are appended when (a) comes
\* before (b), (b) before (c) and (c) before (d).
InStatedOrder(disk, root) ==
    {a \o b \o c \o d : a \in Orders(DirectOf(disk, root)), b \in Orders(ScopedOf(disk, root)),
                        c \in Orders(UnscopedOf(disk, root)), d \in Orders(SubdirsOf(disk, root))}

RECURSIVE AllInStatedOrder(_, _)
AllInStatedOrder(disk, roots) ==
    IF roots = <<>> THEN {<<>>}
    ELSE {first \o rest : first \in InStatedOrder(disk, Head(roots)),
                         rest \in AllInStatedOrder(disk, Tail(roots))}

\* C21 as stated: the manifests of each root are appended in the order (a)
\* the manifest directly inside the root, (b) those of the scoped modules of
\* its node_modules, (c) those of its unscoped modules with a plugin name,
\* (d) those of its immediate subdirectories.
C21_Original ==
    is_some(registry) => origin \in AllInStatedOrder(fs, RootsInOrder(environment))

(***************************************************************************)
(* C22                                                                     *)
(***************************************************************************)
HasId(value) == value.t = "object" /\ "id" \in DOMAIN value.v

\* The request is the interpolated step with an id: the step's own when it
\* has one, else a string that no earlier request of the call carries.
CarriesId(interpolated, request, earlier) ==
    /\ HasId(request)
    /\ interpolated.t = "object"
    /\ DOMAIN request.v = DOMAIN interpolated.v \cup {"id"}
    /\ \A key \in DOMAIN interpolated.v : request.v[key] = interpolated.v[key]
    /\ ~HasId(interpolated) =>
          /\ request.v["id"].t = "string"
          /\ \A j \in 1..Len(earlier) : earlier[j].v["id"] # request.v["id"]

AllCarryId(steps, requests, values, order) ==
    \A k \in 1..Len(requests) :
        CarriesId(interpolate_value(steps[k], values, order), requests[k],
                  SubSeq(requests, 1, k - 1))

\* C22: every request a macro hands to send_command is the interpolated step
\* with an id field: the id of the interpolated step when it has one, literal
\* or interpolated, and a fresh one when it has none; no other field differs.
C22_RequestsCarryId ==
    (sent # <<>> /\ is_some(resolved) /\ IsMacro /\ TheCmd.handler.steps # None)
        => AllCarryId(TheSteps, sent, arg_values, arg_order)

\* myext example.fill 42 sent two steps with fresh ids and then the step
\* with the literal id.
C22_Witness ==
    /\ args = <<"myext", "example.fill", "42">>
    /\ Len(sent) = 3
    /\ sent[1].v["id"] = ValueString(gen_id(1))
    /\ sent[2].v["id"] = ValueString(gen_id(2))
    /\ sent[3].v["id"] = ValueString("fixed-id")

(***************************************************************************)
(* C23                                                                     *)
(***************************************************************************)
IsValidationError(r) == r.kind \in {"InvalidInvocation", "InvalidValue"}

IsMissingAction(r) ==
    r.kind = "InvalidInvocation" /\ r.message = "Macro step missing action field"

\* C23 as stated: when the call has returned InvalidInvocation or
\* InvalidValue, no request was sent during it.
C23_Original == IsValidationError(result) => sent = <<>>

\* C23: when the call has returned InvalidValue, or InvalidInvocation for
\* anything but a macro step without action field, no request was sent during
\* it; when it has returned InvalidInvocation for a macro step without action
\* field, every request sent before was answered, and with success.
C23_ValidationBeforeSend ==
    /\ (IsValidationError(result) /\ ~IsMissingAction(result)) => sent = <<>>
    /\ IsMissingAction(result) =>
          /\ Len(received) = Len(sent)
          /\ \A j \in 1..Len(received) : Succeeded(received[j])

\* tools partial: the first step was sent and answered with success, the
\* second has no action field.
C23_Witness ==
    /\ args = <<"tools", "partial">>
    /\ IsMissingAction(result)
    /\ Len(sent) = 1
    /\ Succeeded(received[1])

(***************************************************************************)
(* C24                                                                     *)
(***************************************************************************)
\* Every string of the templates is interpolated to the same value in every
\* order in which the map can iterate.
SameInEveryOrder(steps, values, order) ==
    \A k \in 1..Len(steps) :
        \A s \in StringLeaves(steps[k]) :
            \A other \in Orders(DOMAIN values) :
                interpolate_string(s, values, other) = interpolate_string(s, values, order)

\* C24 as stated: for a template string and a bound argument map,
\* interpolate_string yields the same result whatever the order in which the
\* map's entries are iterated, a value holding "{{other}}" for another bound
\* key included.
C24_Original ==
    (IsMacro /\ is_some(resolved) /\ TheCmd.handler.steps # None)
        => SameInEveryOrder(TheSteps, arg_values, arg_order)

(***************************************************************************)
(* C25                                                                     *)
(***************************************************************************)
\* C25 as stated: when the call has returned Ok(Some(r)), a request was sent
\* and r is a response received during the call, with success = true.
C25_Original ==
    result.kind = "OkSome"
        => /\ Len(sent) >= 1
           /\ result.response.success
           /\ \E k \in 1..Len(received) : received[k] = Ok(result.response)

(***************************************************************************)
(* C26                                                                     *)
(***************************************************************************)
\* A JSON integer for int, a JSON number for number, a JSON boolean for
\* bool, a JSON string for string, for no type and for any other type.
Conforms(def, value) ==
    IF def.arg_type = Some("int") THEN value.t = "int"
    ELSE IF def.arg_type = Some("number") THEN value.t \in {"int", "float"}
    ELSE IF def.arg_type = Some("bool") THEN value.t = "bool"
    ELSE value.t = "string"

AllConform(defs, values) ==
    \A key \in DOMAIN values :
        \E i \in 1..Len(defs) : defs[i].name = key /\ Conforms(defs[i], values[key])

\* C26 as stated: every key of the map parse_args returns is the name of a
\* declared argument and its value has that argument's declared type, be it
\* coerced from a token or taken from the declared default.
C26_Original == is_some(resolved) => AllConform(TheDefs, arg_values)

(***************************************************************************)
(* C27                                                                     *)
(***************************************************************************)
NoFileTwice(files) == \A i, j \in 1..Len(files) : i # j => files[i] # files[j]

\* C27 as stated: no two entries of the list that load builds were read from
\* the same extension.json file.
C27_Original == is_some(registry) => NoFileTwice(origin)

====
